---- MODULE Spec2Model ----
(***************************************************************************)
(* Model of the account-synchronisation engine of the account manager UI   *)
(* (the App component, src/unnamed/part_000).                              *)
(*                                                                         *)
(* All code runs on one event loop.  Every `await` of a backend call is a  *)
(* suspension point, so every handler is cut into one action per segment   *)
(* between two awaits.  React state (accounts, selectedIds, refreshingIds, *)
(* loading, error, confirmModal) is a variable; a state value that a       *)
(* handler reads through its closure (not through a functional updater)   *)
(* is the value of the render in which the closure was created, and is     *)
(* stored with the pending closure where the two can differ.               *)
(*                                                                         *)
(* Handlers are invoked only where the component tree renders their        *)
(* control: account cards (select, context menu) when loading is false,    *)
(* the toolbar when the list is not empty, the batch buttons when the      *)
(* selection is not empty, nothing else while the confirm dialog is open.  *)
(***************************************************************************)
EXTENDS Integers, Sequences, FiniteSets

\* ---------------------------------------------------------------- bounds
MaxOps == 2       \* asynchronous user operations per run of Spec
MaxBatchOps == 1  \* asynchronous user operations per run of SpecBatch

\* the account identifiers: two accounts
Ids == {1, 2}

\* ------------------------------------------------------- token expiry
\* token_expired_at of an account is absent, a string that does not parse as a
\* date, or an instant before, at or after the current time.
NoExpiry == -1
Unparsable == -2
NaN == -3
Now == 1
ExpiryVals == {NoExpiry, Unparsable, Now - 1, Now, Now + 1}

\* new Date(token_expired_at).getTime()
DateGetTime(v) == IF v = Unparsable THEN NaN ELSE v

VARIABLES
    backend,        \* the backend's account list (system of record), ids in order
    tokenExpiredAt, \* backend: token_expired_at of every id
    accounts,       \* useState accounts: [id, usage, token_expired_at, is_current]
    selectedIds,    \* useState selectedIds
    refreshingIds,  \* useState refreshingIds
    loading,        \* useState loading
    error,          \* useState error
    confirmModal,   \* useState confirmModal, with the state captured by onConfirm
    loads,          \* loadAccounts calls in progress
    refreshes,      \* handleRefreshAccount calls awaiting getAccountUsage
    gifts,          \* handleClaimGift.onConfirm calls awaiting claimGift
    batches,        \* batch runs awaiting Promise.allSettled
    deletes,        \* handleDeleteAccount.onConfirm calls awaiting removeAccount
    updates,        \* handleUpdateToken calls awaiting updateAccountToken
    imports,        \* handleImportAccounts calls awaiting importAccounts
    lastToast,      \* the toast most recently passed to addToast
    crashed,        \* a state updater threw while rendering
    sched,          \* the token auto-refresh effect: timer, outstanding calls
    addModal,       \* AddAccountModal: the manual-add form
    currentId,      \* backend: the id of the active account, 0 when there is none
    switches,       \* handleSwitchAccount.onConfirm calls awaiting switchAccount
    adds,           \* handleAddAccount calls awaiting addAccountByToken
    login,          \* AddAccountModal's login-event subscriptions, login window
    toasts,         \* useToast: useState toasts
    clock,          \* the reading of Date.now()
    ops             \* number of user-initiated asynchronous operations so far

vars == <<backend, tokenExpiredAt, accounts, selectedIds, refreshingIds, loading,
          error, confirmModal, loads, refreshes, gifts, batches, deletes,
          updates, imports, lastToast, crashed, sched, addModal, currentId,
          switches, adds, login, toasts, clock, ops>>

\* ------------------------------------------------------------- helpers
RemoveAt(s, i) == SubSeq(s, 1, i - 1) \o SubSeq(s, i + 1, Len(s))

Range(s) == {s[i] : i \in DOMAIN s}

RECURSIVE SetToSeq(_)
SetToSeq(S) ==
    IF S = {} THEN <<>>
    ELSE LET m == CHOOSE x \in S : \A y \in S : x <= y
         IN <<m>> \o SetToSeq(S \ {m})

RECURSIVE FilterSeq(_, _)
FilterSeq(s, Keep) ==
    IF s = <<>> THEN <<>>
    ELSE (IF Head(s) \in Keep THEN <<Head(s)>> ELSE <<>>) \o FilterSeq(Tail(s), Keep)

\* usage?: UsageSummary | null.  A snapshot records the id it was fetched for.
Undefined == [st |-> "undefined", of |-> 0]
Null == [st |-> "null", of |-> 0]
Snapshot(id) == [st |-> "ok", of |-> id]

AccountIds == {accounts[i].id : i \in DOMAIN accounts}

\* A toast: its type, its message, and the counts <<succeeded, failed>> when
\* the message reports counts.  `about` is a history field: the ids and the
\* per-item outcomes of the batch request the toast answers.
NoBatch == [ids |-> <<>>, res |-> <<>>]
Toast(type, msg) == [type |-> type, msg |-> msg, counts |-> <<>>, about |-> NoBatch]
NoToast == Toast("none", "none")
CountToast(type, msg, s, f, ids, res) ==
    [type |-> type, msg |-> msg, counts |-> <<s, f>>,
     about |-> [ids |-> ids, res |-> res]]

NoModal == [kind |-> "none", id |-> 0, ids |-> <<>>, seen |-> {}]

\* continuation of an awaited loadAccounts()
NoAfter == [k |-> "none", t |-> NoToast]
AfterToast(t) == [k |-> "toast", t |-> t]
AfterClose == [k |-> "closeConfirm", t |-> NoToast]
AfterAdded == [k |-> "added", t |-> NoToast]

\* handleManualSubmit after `await onAdd(token, cookies)` returned:
\* setTokenInput(""), onClose(), and the finally block's setLoading(false)
AddModalAfter(after) ==
    IF after.k = "added"
    THEN [addModal EXCEPT !.tokenInput = <<>>, !.open = FALSE, !.loading = FALSE,
                          !.pc = "idle"]
    ELSE addModal

\* ------------------------------------------------------------- loadAccounts
\* loadAccounts up to its first await: setLoading(true), api.getAccounts() sent.
NewLoad(after) == [pc |-> "list", list |-> <<>>, res |-> <<>>, after |-> after]

\* what the caller that awaited loadAccounts() does when it returns
RunAfter(after, modal, toast) ==
    [modal |-> IF after.k = "closeConfirm" THEN NoModal ELSE modal,
     toast |-> IF after.k = "toast" THEN after.t ELSE toast]

\* the is_current flag the backend reports for an account: set for the active
\* account and for no other
BackendIsCurrent(id) == id = currentId

\* the backend serves getAccounts: the response holds the list of that moment
BackendGetAccounts(i) ==
    /\ ~crashed
    /\ loads[i].pc = "list"
    /\ loads' = [loads EXCEPT ![i].pc = "fetched",
                              ![i].list = [k \in DOMAIN backend |->
                                  [id |-> backend[k],
                                   token_expired_at |-> tokenExpiredAt[backend[k]],
                                   is_current |-> BackendIsCurrent(backend[k])]]]
    /\ UNCHANGED <<sched, addModal, login, toasts, clock, currentId, switches, adds>>
    /\ UNCHANGED <<backend, tokenExpiredAt, accounts, selectedIds, refreshingIds,
                   loading, error, confirmModal, refreshes, gifts, batches,
                   deletes, updates, imports, lastToast, crashed, ops>>

\* LoadListFail as a clear-then-fail implementation would behave
LoadListFail_ClearsStore(i) ==
    /\ ~crashed
    /\ loads[i].pc = "list"
    /\ accounts' = <<>>
    /\ error' = "load failed"
    /\ loading' = FALSE
    /\ loads' = RemoveAt(loads, i)
    /\ LET r == RunAfter(loads[i].after, confirmModal, lastToast)
       IN /\ confirmModal' = r.modal
          /\ lastToast' = r.toast
    /\ addModal' = AddModalAfter(loads[i].after)
    /\ UNCHANGED <<sched, login, toasts, clock, currentId, switches, adds>>
    /\ UNCHANGED <<backend, tokenExpiredAt, selectedIds, refreshingIds,
                   refreshes, gifts, batches, deletes, updates, imports,
                   crashed, ops>>

\* getAccounts rejects: catch block, then the caller continues
LoadListFail(i) ==
    /\ ~crashed
    /\ loads[i].pc = "list"
    /\ error' = "load failed"
    /\ loading' = FALSE
    /\ loads' = RemoveAt(loads, i)
    /\ LET r == RunAfter(loads[i].after, confirmModal, lastToast)
       IN /\ confirmModal' = r.modal
          /\ lastToast' = r.toast
    /\ addModal' = AddModalAfter(loads[i].after)
    /\ UNCHANGED <<sched, login, toasts, clock, currentId, switches, adds>>
    /\ UNCHANGED <<backend, tokenExpiredAt, accounts, selectedIds, refreshingIds,
                   refreshes, gifts, batches, deletes, updates, imports,
                   crashed, ops>>

\* LoadPublish as an implementation that shows the list only once the usage
\* results are in would behave: the fetches are dispatched, nothing is published
LoadPublish_Deferred(i) ==
    /\ ~crashed
    /\ loads[i].pc = "fetched"
    /\ LET list == loads[i].list
       IN IF Len(list) > 0
          THEN /\ loads' = [loads EXCEPT ![i].pc = "usage",
                                         ![i].res = [k \in DOMAIN list |-> "pending"]]
               /\ UNCHANGED <<accounts, loading, confirmModal, lastToast>>
          ELSE /\ accounts' = <<>>
               /\ loading' = FALSE
               /\ loads' = RemoveAt(loads, i)
               /\ LET r == RunAfter(loads[i].after, confirmModal, lastToast)
                  IN /\ confirmModal' = r.modal
                     /\ lastToast' = r.toast
    /\ addModal' = IF Len(loads[i].list) = 0 THEN AddModalAfter(loads[i].after) ELSE addModal
    /\ UNCHANGED <<sched, login, toasts, clock, currentId, switches, adds>>
    /\ UNCHANGED <<backend, tokenExpiredAt, selectedIds, refreshingIds, error,
                   refreshes, gifts, batches, deletes, updates, imports,
                   crashed, ops>>

\* LoadPublish as an implementation that adds the fetched accounts to the ones
\* it already shows would behave
LoadPublish_Append(i) ==
    /\ ~crashed
    /\ loads[i].pc = "fetched"
    /\ LET list == loads[i].list
       IN /\ accounts' = accounts \o [k \in DOMAIN list |->
                            [id |-> list[k].id, usage |-> Undefined,
                             token_expired_at |-> list[k].token_expired_at,
                             is_current |-> list[k].is_current]]
          /\ loading' = FALSE
          /\ IF Len(list) > 0
             THEN /\ loads' = [loads EXCEPT ![i].pc = "usage",
                                            ![i].res = [k \in DOMAIN list |-> "pending"]]
                  /\ UNCHANGED <<confirmModal, lastToast>>
             ELSE /\ loads' = RemoveAt(loads, i)
                  /\ LET r == RunAfter(loads[i].after, confirmModal, lastToast)
                     IN /\ confirmModal' = r.modal
                        /\ lastToast' = r.toast
    /\ addModal' = IF Len(loads[i].list) = 0 THEN AddModalAfter(loads[i].after) ELSE addModal
    /\ UNCHANGED <<sched, login, toasts, clock, currentId, switches, adds>>
    /\ UNCHANGED <<backend, tokenExpiredAt, selectedIds, refreshingIds, error,
                   refreshes, gifts, batches, deletes, updates, imports,
                   crashed, ops>>

\* getAccounts resolved: publish the list with usage undefined, clear loading,
\* then dispatch getAccountUsage for every account of the list
LoadPublish(i) ==
    /\ ~crashed
    /\ loads[i].pc = "fetched"
    /\ LET list == loads[i].list
       IN /\ accounts' = [k \in DOMAIN list |->
                            [id |-> list[k].id, usage |-> Undefined,
                             token_expired_at |-> list[k].token_expired_at,
                             is_current |-> list[k].is_current]]
          /\ loading' = FALSE
          /\ IF Len(list) > 0
             THEN /\ loads' = [loads EXCEPT ![i].pc = "usage",
                                            ![i].res = [k \in DOMAIN list |-> "pending"]]
                  /\ UNCHANGED <<confirmModal, lastToast>>
             ELSE /\ loads' = RemoveAt(loads, i)
                  /\ LET r == RunAfter(loads[i].after, confirmModal, lastToast)
                     IN /\ confirmModal' = r.modal
                        /\ lastToast' = r.toast
    /\ addModal' = IF Len(loads[i].list) = 0 THEN AddModalAfter(loads[i].after) ELSE addModal
    /\ UNCHANGED <<sched, login, toasts, clock, currentId, switches, adds>>
    /\ UNCHANGED <<backend, tokenExpiredAt, selectedIds, refreshingIds, error,
                   refreshes, gifts, batches, deletes, updates, imports,
                   crashed, ops>>

\* the merge as Promise.all would force it: one rejected fetch and no account
\* gets a usage
MergeUsage_AllOrNothing(prev, list, res) ==
    [k \in DOMAIN prev |->
        [prev[k] EXCEPT !.usage = IF \A j \in DOMAIN res : res[j] = "ok"
                                  THEN Snapshot(list[k].id) ELSE Null]]

\* the updater of the merge: prev.map((account, index) => usageResults[index] ...)
MergeUsage(prev, list, res) ==
    [k \in DOMAIN prev |->
        [prev[k] EXCEPT !.usage = IF res[k] = "ok" THEN Snapshot(list[k].id) ELSE Null]]

\* One getAccountUsage of the load settles.  When it is the last one,
\* Promise.allSettled resolves and the rest of loadAccounts runs in the same
\* turn of the event loop: the usage results are merged by index and the caller
\* continues.  usageResults[index] is undefined for an index beyond the load's
\* own list; reading .status of it throws inside the updater, while React
\* renders.
LoadUsageSettle(i, k, outcome) ==
    /\ ~crashed
    /\ loads[i].pc = "usage"
    /\ k \in DOMAIN loads[i].res
    /\ loads[i].res[k] = "pending"
    /\ LET res == [loads[i].res EXCEPT ![k] = outcome]
       IN IF \E j \in DOMAIN res : res[j] = "pending"
          THEN /\ loads' = [loads EXCEPT ![i].res = res]
               /\ UNCHANGED <<accounts, confirmModal, lastToast, crashed, addModal,
                              login, toasts, clock>>
          ELSE IF Len(accounts) > Len(res)
          THEN /\ crashed' = TRUE
               /\ loads' = [loads EXCEPT ![i].res = res]
               /\ UNCHANGED <<accounts, confirmModal, lastToast, addModal, login,
                              toasts, clock>>
          ELSE /\ accounts' = MergeUsage(accounts, loads[i].list, res)
               /\ loads' = RemoveAt(loads, i)
               /\ LET r == RunAfter(loads[i].after, confirmModal, lastToast)
                  IN /\ confirmModal' = r.modal
                     /\ lastToast' = r.toast
               /\ addModal' = AddModalAfter(loads[i].after)
               /\ UNCHANGED crashed
    /\ UNCHANGED <<sched, login, toasts, clock, currentId, switches, adds>>
    /\ UNCHANGED <<backend, tokenExpiredAt, selectedIds, refreshingIds, loading,
                   error, refreshes, gifts, batches, deletes, updates, imports, ops>>

\* ------------------------------------------------- what the UI lets the user do
\* the confirm dialog covers the page while it is open
UIFree == ~crashed /\ confirmModal.kind = "none"

\* account cards are rendered when loading is false
CardVisible(id) == ~loading /\ id \in AccountIds

\* the toolbar (select-all, batch buttons, delete-expired) needs a non-empty list
ToolbarVisible == Len(accounts) > 0

\* UpsertUsage as an updater that builds the account anew from the id and the
\* usage, instead of spreading the old one, would behave
UpsertUsage_Rebuilds(prev, id, usage) ==
    [k \in DOMAIN prev |->
        IF prev[k].id = id
        THEN [id |-> id, usage |-> usage, token_expired_at |-> NoExpiry,
              is_current |-> FALSE]
        ELSE prev[k]]

\* prev.map((a) => (a.id === id ? { ...a, usage } : a))
UpsertUsage(prev, id, usage) ==
    [k \in DOMAIN prev |-> IF prev[k].id = id THEN [prev[k] EXCEPT !.usage = usage]
                                             ELSE prev[k]]

\* ------------------------------------------------------ handleRefreshAccount
\* handleRefreshAccount(id) as called by a closure that sees `seen` as
\* refreshingIds: the guard reads `seen`, the insertion is a functional update.
RefreshCall(id, seen, from) ==
    IF id \in seen
    THEN UNCHANGED <<refreshingIds, refreshes>>
    ELSE /\ refreshingIds' = refreshingIds \cup {id}
         /\ refreshes' = Append(refreshes, [id |-> id, from |-> from])

\* context menu "refresh": the handler of the current render
HandleRefreshAccount(id) ==
    /\ UIFree
    /\ CardVisible(id)
    /\ id \notin refreshingIds
    /\ RefreshCall(id, refreshingIds, "menu")
    /\ ops' = ops + 1
    /\ UNCHANGED <<sched, addModal, login, toasts, clock, currentId, switches, adds>>
    /\ UNCHANGED <<backend, tokenExpiredAt, accounts, selectedIds, loading, error,
                   confirmModal, loads, gifts, batches, deletes, updates,
                   imports, lastToast, crashed>>

\* getAccountUsage resolved: upsert by id, toast, finally clear the guard; a
\* claim-gift caller then shows its own success toast
RefreshSettleOk(r) ==
    /\ ~crashed
    /\ r \in DOMAIN refreshes
    /\ accounts' = UpsertUsage(accounts, refreshes[r].id, Snapshot(refreshes[r].id))
    /\ refreshingIds' = refreshingIds \ {refreshes[r].id}
    /\ lastToast' = IF refreshes[r].from = "gift" THEN Toast("success", "gift claimed")
                    ELSE Toast("success", "refreshed")
    /\ refreshes' = RemoveAt(refreshes, r)
    /\ UNCHANGED <<sched, addModal, login, toasts, clock, currentId, switches, adds>>
    /\ UNCHANGED <<backend, tokenExpiredAt, selectedIds, loading, error,
                   confirmModal, loads, gifts, batches, deletes, updates,
                   imports, crashed, ops>>

\* getAccountUsage rejected: error toast, finally clear the guard; the error is
\* not rethrown, so a claim-gift caller still shows its success toast
RefreshSettleFail(r) ==
    /\ ~crashed
    /\ r \in DOMAIN refreshes
    /\ refreshingIds' = refreshingIds \ {refreshes[r].id}
    /\ lastToast' = IF refreshes[r].from = "gift" THEN Toast("success", "gift claimed")
                    ELSE Toast("error", "refresh failed")
    /\ refreshes' = RemoveAt(refreshes, r)
    /\ UNCHANGED <<sched, addModal, login, toasts, clock, currentId, switches, adds>>
    /\ UNCHANGED <<backend, tokenExpiredAt, accounts, selectedIds, loading, error,
                   confirmModal, loads, gifts, batches, deletes, updates,
                   imports, crashed, ops>>

\* ----------------------------------------------------------- handleClaimGift
\* context menu "claim gift": opens the dialog; its onConfirm closes over the
\* handleRefreshAccount, and so the refreshingIds, of this render
HandleClaimGift(id) ==
    /\ UIFree
    /\ CardVisible(id)
    /\ confirmModal' = [kind |-> "gift", id |-> id, ids |-> <<>>, seen |-> refreshingIds]
    /\ UNCHANGED <<sched, addModal, login, toasts, clock, currentId, switches, adds>>
    /\ UNCHANGED <<backend, tokenExpiredAt, accounts, selectedIds, refreshingIds,
                   loading, error, loads, refreshes, gifts, batches, deletes,
                   updates, imports, lastToast, crashed, ops>>

\* onConfirm up to `await api.claimGift`
ConfirmGift ==
    /\ ~crashed
    /\ confirmModal.kind = "gift"
    /\ confirmModal' = NoModal
    /\ lastToast' = Toast("info", "claiming gift")
    /\ gifts' = Append(gifts, [id |-> confirmModal.id, seen |-> confirmModal.seen])
    /\ ops' = ops + 1
    /\ UNCHANGED <<sched, addModal, login, toasts, clock, currentId, switches, adds>>
    /\ UNCHANGED <<backend, tokenExpiredAt, accounts, selectedIds, refreshingIds,
                   loading, error, loads, refreshes, batches, deletes, updates,
                   imports, crashed>>

\* claimGift resolved: await handleRefreshAccount(id); when the guard of the
\* captured render holds the id the call returns at once and the success toast
\* follows
GiftClaimOk(g) ==
    /\ ~crashed
    /\ g \in DOMAIN gifts
    /\ RefreshCall(gifts[g].id, gifts[g].seen, "gift")
    /\ lastToast' = IF gifts[g].id \in gifts[g].seen
                    THEN Toast("success", "gift claimed") ELSE lastToast
    /\ gifts' = RemoveAt(gifts, g)
    /\ UNCHANGED <<sched, addModal, login, toasts, clock, currentId, switches, adds>>
    /\ UNCHANGED <<backend, tokenExpiredAt, accounts, selectedIds, loading, error,
                   confirmModal, loads, batches, deletes, updates, imports,
                   crashed, ops>>

\* claimGift rejected
GiftClaimFail(g) ==
    /\ ~crashed
    /\ g \in DOMAIN gifts
    /\ lastToast' = Toast("error", "claim failed")
    /\ gifts' = RemoveAt(gifts, g)
    /\ UNCHANGED <<sched, addModal, login, toasts, clock, currentId, switches, adds>>
    /\ UNCHANGED <<backend, tokenExpiredAt, accounts, selectedIds, refreshingIds,
                   loading, error, confirmModal, loads, refreshes, batches,
                   deletes, updates, imports, crashed, ops>>

\* onCancel of the confirm dialog
CancelConfirm ==
    /\ ~crashed
    /\ confirmModal.kind # "none"
    /\ confirmModal' = NoModal
    /\ UNCHANGED <<sched, addModal, login, toasts, clock, currentId, switches, adds>>
    /\ UNCHANGED <<backend, tokenExpiredAt, accounts, selectedIds, refreshingIds,
                   loading, error, loads, refreshes, gifts, batches, deletes,
                   updates, imports, lastToast, crashed, ops>>

\* ------------------------------------------------------------- selection
HandleSelectAccount(id) ==
    /\ UIFree
    /\ CardVisible(id)
    /\ selectedIds' = IF id \in selectedIds THEN selectedIds \ {id}
                      ELSE selectedIds \cup {id}
    /\ UNCHANGED <<sched, addModal, login, toasts, clock, currentId, switches, adds>>
    /\ UNCHANGED <<backend, tokenExpiredAt, accounts, refreshingIds, loading, error,
                   confirmModal, loads, refreshes, gifts, batches, deletes,
                   updates, imports, lastToast, crashed, ops>>

HandleSelectAll ==
    /\ UIFree
    /\ ToolbarVisible
    /\ selectedIds' = IF Cardinality(selectedIds) = Len(accounts) THEN {}
                      ELSE AccountIds
    /\ UNCHANGED <<sched, addModal, login, toasts, clock, currentId, switches, adds>>
    /\ UNCHANGED <<backend, tokenExpiredAt, accounts, refreshingIds, loading, error,
                   confirmModal, loads, refreshes, gifts, batches, deletes,
                   updates, imports, lastToast, crashed, ops>>

\* ------------------------------------------------------------ batch runs
NewBatch(kind, ids) ==
    [kind |-> kind, ids |-> ids, res |-> [k \in DOMAIN ids |-> "pending"]]

\* SuccessCount as a filter on `fulfilled` alone would count in a batch refresh,
\* whose items catch their own errors and always fulfil
SuccessCount_AllFulfilled(res) == Cardinality(DOMAIN res)

\* results.filter(fulfilled [&& value.success]).length
SuccessCount(res) == Cardinality({k \in DOMAIN res : res[k] = "ok"})

\* the toast that reports a finished batch: successCount and
\* failCount = ids.length - successCount
BatchToast(kind, ids, res) ==
    LET successCount == SuccessCount(res)
        failCount == Len(ids) - successCount
    IN IF failCount = 0
       THEN CountToast("success", kind, successCount, failCount, ids, res)
       ELSE CountToast("warning", kind, successCount, failCount, ids, res)

\* toolbar "refresh": the button exists only while the selection is not empty
HandleBatchRefresh ==
    /\ UIFree
    /\ ToolbarVisible
    /\ selectedIds # {}
    /\ lastToast' = Toast("info", "refreshing batch")
    /\ batches' = Append(batches, NewBatch("refresh", SetToSeq(selectedIds)))
    /\ ops' = ops + 1
    /\ UNCHANGED <<sched, addModal, login, toasts, clock, currentId, switches, adds>>
    /\ UNCHANGED <<backend, tokenExpiredAt, accounts, selectedIds, refreshingIds,
                   loading, error, confirmModal, loads, refreshes, gifts, deletes,
                   updates, imports, crashed>>

\* One item of a batch refresh settles: on success the usage is upserted by id.
\* After the last item Promise.allSettled resolves and the counts are reported.
BatchRefreshSettle(b, k, outcome) ==
    /\ ~crashed
    /\ b \in DOMAIN batches
    /\ batches[b].kind = "refresh"
    /\ k \in DOMAIN batches[b].res
    /\ batches[b].res[k] = "pending"
    /\ accounts' = IF outcome = "ok"
                   THEN UpsertUsage(accounts, batches[b].ids[k], Snapshot(batches[b].ids[k]))
                   ELSE accounts
    /\ LET res == [batches[b].res EXCEPT ![k] = outcome]
       IN IF \E j \in DOMAIN res : res[j] = "pending"
          THEN /\ batches' = [batches EXCEPT ![b].res = res]
               /\ UNCHANGED lastToast
          ELSE /\ batches' = RemoveAt(batches, b)
               /\ lastToast' = BatchToast("batch refresh", batches[b].ids, res)
    /\ UNCHANGED <<sched, addModal, login, toasts, clock, currentId, switches, adds>>
    /\ UNCHANGED <<backend, tokenExpiredAt, selectedIds, refreshingIds, loading,
                   error, confirmModal, loads, refreshes, gifts, deletes, updates,
                   imports, crashed, ops>>

\* toolbar "delete": opens the dialog over the ids selected now
HandleBatchDelete ==
    /\ UIFree
    /\ ToolbarVisible
    /\ selectedIds # {}
    /\ confirmModal' = [kind |-> "batch delete", id |-> 0,
                        ids |-> SetToSeq(selectedIds), seen |-> {}]
    /\ UNCHANGED <<sched, addModal, login, toasts, clock, currentId, switches, adds>>
    /\ UNCHANGED <<backend, tokenExpiredAt, accounts, selectedIds, refreshingIds,
                   loading, error, loads, refreshes, gifts, batches, deletes,
                   updates, imports, lastToast, crashed, ops>>

\* IsExpired as a filter without the isNaN test would behave
IsExpired_NoNaNCheck(account) ==
    /\ account.token_expired_at # NoExpiry
    /\ DateGetTime(account.token_expired_at) < Now

\* the filter of handleDeleteExpiredAccounts
IsExpired(account) ==
    /\ account.token_expired_at # NoExpiry
    /\ DateGetTime(account.token_expired_at) # NaN
    /\ DateGetTime(account.token_expired_at) < Now

ExpiredIds(accs) ==
    LET idx == {k \in DOMAIN accs : IsExpired(accs[k])}
        RECURSIVE Pick(_)
        Pick(k) == IF k > Len(accs) THEN <<>>
                   ELSE (IF k \in idx THEN <<accs[k].id>> ELSE <<>>) \o Pick(k + 1)
    IN Pick(1)

\* header "delete expired": an info toast when nothing is expired, else the dialog
HandleDeleteExpiredAccounts ==
    /\ UIFree
    /\ ToolbarVisible
    /\ LET expired == ExpiredIds(accounts)
       IN IF Len(expired) = 0
          THEN /\ lastToast' = Toast("info", "no expired accounts")
               /\ UNCHANGED confirmModal
          ELSE /\ confirmModal' = [kind |-> "delete expired", id |-> 0,
                                   ids |-> expired, seen |-> {}]
               /\ UNCHANGED lastToast
    /\ UNCHANGED <<sched, addModal, login, toasts, clock, currentId, switches, adds>>
    /\ UNCHANGED <<backend, tokenExpiredAt, accounts, selectedIds, refreshingIds,
                   loading, error, loads, refreshes, gifts, batches, deletes,
                   updates, imports, crashed, ops>>

\* onConfirm of both batch deletes up to `await Promise.allSettled`
ConfirmBatchDelete ==
    /\ ~crashed
    /\ confirmModal.kind \in {"batch delete", "delete expired"}
    /\ confirmModal' = NoModal
    /\ lastToast' = Toast("info", "deleting batch")
    /\ batches' = Append(batches, NewBatch(confirmModal.kind, confirmModal.ids))
    /\ ops' = ops + 1
    /\ UNCHANGED <<sched, addModal, login, toasts, clock, currentId, switches, adds>>
    /\ UNCHANGED <<backend, tokenExpiredAt, accounts, selectedIds, refreshingIds,
                   loading, error, loads, refreshes, gifts, deletes, updates,
                   imports, crashed>>

\* BatchDeleteSettle as an implementation that reloads only when something was
\* deleted would behave: with every removal rejected it reports at once
BatchDeleteSettle_ReloadIfDeleted(b, k, outcome) ==
    /\ ~crashed
    /\ b \in DOMAIN batches
    /\ batches[b].kind \in {"batch delete", "delete expired"}
    /\ k \in DOMAIN batches[b].res
    /\ batches[b].res[k] = "pending"
    /\ backend' = IF outcome = "ok"
                  THEN FilterSeq(backend, Ids \ {batches[b].ids[k]})
                  ELSE backend
    /\ LET res == [batches[b].res EXCEPT ![k] = outcome]
       IN IF \E j \in DOMAIN res : res[j] = "pending"
          THEN /\ batches' = [batches EXCEPT ![b].res = res]
               /\ UNCHANGED <<selectedIds, loading, loads, lastToast>>
          ELSE /\ batches' = RemoveAt(batches, b)
               /\ selectedIds' = {}
               /\ IF SuccessCount(res) > 0
                  THEN /\ loading' = TRUE
                       /\ loads' = Append(loads,
                              NewLoad(AfterToast(BatchToast(batches[b].kind, batches[b].ids, res))))
                       /\ UNCHANGED lastToast
                  ELSE /\ lastToast' = BatchToast(batches[b].kind, batches[b].ids, res)
                       /\ UNCHANGED <<loading, loads>>
    /\ UNCHANGED <<sched, addModal, login, toasts, clock, currentId, switches, adds>>
    /\ UNCHANGED <<tokenExpiredAt, accounts, refreshingIds, error, confirmModal,
                   refreshes, gifts, deletes, updates, imports, crashed, ops>>

\* BatchDeleteSettle as a fail-fast coordinator (Promise.all) would behave: the
\* first rejection ends the batch while other removals are still outstanding
BatchDeleteSettle_FailFast(b, k, outcome) ==
    /\ ~crashed
    /\ b \in DOMAIN batches
    /\ batches[b].kind \in {"batch delete", "delete expired"}
    /\ k \in DOMAIN batches[b].res
    /\ batches[b].res[k] = "pending"
    /\ backend' = IF outcome = "ok"
                  THEN FilterSeq(backend, Ids \ {batches[b].ids[k]})
                  ELSE backend
    /\ LET res == [batches[b].res EXCEPT ![k] = outcome]
       IN IF outcome = "ok" /\ \E j \in DOMAIN res : res[j] = "pending"
          THEN /\ batches' = [batches EXCEPT ![b].res = res]
               /\ UNCHANGED <<selectedIds, loading, loads>>
          ELSE /\ batches' = RemoveAt(batches, b)
               /\ selectedIds' = {}
               /\ loading' = TRUE
               /\ loads' = Append(loads,
                      NewLoad(AfterToast(BatchToast(batches[b].kind, batches[b].ids, res))))
    /\ UNCHANGED <<sched, addModal, login, toasts, clock, currentId, switches, adds>>
    /\ UNCHANGED <<tokenExpiredAt, accounts, refreshingIds, error, confirmModal,
                   refreshes, gifts, deletes, updates, imports, lastToast,
                   crashed, ops>>

\* One removeAccount of a batch delete settles; a fulfilled one has removed the
\* account in the backend.  After the last one: count, clear the selection,
\* await loadAccounts(), then report.
BatchDeleteSettle(b, k, outcome) ==
    /\ ~crashed
    /\ b \in DOMAIN batches
    /\ batches[b].kind \in {"batch delete", "delete expired"}
    /\ k \in DOMAIN batches[b].res
    /\ batches[b].res[k] = "pending"
    /\ backend' = IF outcome = "ok"
                  THEN FilterSeq(backend, Ids \ {batches[b].ids[k]})
                  ELSE backend
    /\ LET res == [batches[b].res EXCEPT ![k] = outcome]
       IN IF \E j \in DOMAIN res : res[j] = "pending"
          THEN /\ batches' = [batches EXCEPT ![b].res = res]
               /\ UNCHANGED <<selectedIds, loading, loads>>
          ELSE /\ batches' = RemoveAt(batches, b)
               /\ selectedIds' = {}
               /\ loading' = TRUE
               /\ loads' = Append(loads,
                      NewLoad(AfterToast(BatchToast(batches[b].kind, batches[b].ids, res))))
    /\ UNCHANGED <<sched, addModal, login, toasts, clock, currentId, switches, adds>>
    /\ UNCHANGED <<tokenExpiredAt, accounts, refreshingIds, error, confirmModal,
                   refreshes, gifts, deletes, updates, imports, lastToast,
                   crashed, ops>>

\* ---------------------------------------------------- handleDeleteAccount
HandleDeleteAccount(id) ==
    /\ UIFree
    /\ CardVisible(id)
    /\ confirmModal' = [kind |-> "delete", id |-> id, ids |-> <<>>, seen |-> {}]
    /\ UNCHANGED <<sched, addModal, login, toasts, clock, currentId, switches, adds>>
    /\ UNCHANGED <<backend, tokenExpiredAt, accounts, selectedIds, refreshingIds,
                   loading, error, loads, refreshes, gifts, batches, deletes,
                   updates, imports, lastToast, crashed, ops>>

\* onConfirm up to `await api.removeAccount`; the dialog stays open meanwhile
ConfirmDelete ==
    /\ ~crashed
    /\ confirmModal.kind = "delete"
    /\ confirmModal' = [confirmModal EXCEPT !.kind = "deleting"]
    /\ deletes' = Append(deletes, confirmModal.id)
    /\ ops' = ops + 1
    /\ UNCHANGED <<sched, addModal, login, toasts, clock, currentId, switches, adds>>
    /\ UNCHANGED <<backend, tokenExpiredAt, accounts, selectedIds, refreshingIds,
                   loading, error, loads, refreshes, gifts, batches, updates,
                   imports, lastToast, crashed>>

\* removeAccount resolved, with the selection emptied as the batch delete does
\* it, instead of the one id taken out
DeleteSettleOk_ClearsSelection(d) ==
    /\ ~crashed
    /\ d \in DOMAIN deletes
    /\ backend' = FilterSeq(backend, Ids \ {deletes[d]})
    /\ selectedIds' = {}
    /\ lastToast' = Toast("success", "deleted")
    /\ loading' = TRUE
    /\ loads' = Append(loads, NewLoad(AfterClose))
    /\ deletes' = RemoveAt(deletes, d)
    /\ UNCHANGED <<sched, addModal, login, toasts, clock, currentId, switches, adds>>
    /\ UNCHANGED <<tokenExpiredAt, accounts, refreshingIds, error, confirmModal,
                   refreshes, gifts, batches, updates, imports, crashed, ops>>

\* removeAccount resolved: deselect the id, toast, await loadAccounts(), close
DeleteSettleOk(d) ==
    /\ ~crashed
    /\ d \in DOMAIN deletes
    /\ backend' = FilterSeq(backend, Ids \ {deletes[d]})
    /\ selectedIds' = selectedIds \ {deletes[d]}
    /\ lastToast' = Toast("success", "deleted")
    /\ loading' = TRUE
    /\ loads' = Append(loads, NewLoad(AfterClose))
    /\ deletes' = RemoveAt(deletes, d)
    /\ UNCHANGED <<sched, addModal, login, toasts, clock, currentId, switches, adds>>
    /\ UNCHANGED <<tokenExpiredAt, accounts, refreshingIds, error, confirmModal,
                   refreshes, gifts, batches, updates, imports, crashed, ops>>

\* removeAccount rejected: toast, close
DeleteSettleFail(d) ==
    /\ ~crashed
    /\ d \in DOMAIN deletes
    /\ lastToast' = Toast("error", "delete failed")
    /\ confirmModal' = NoModal
    /\ deletes' = RemoveAt(deletes, d)
    /\ UNCHANGED <<sched, addModal, login, toasts, clock, currentId, switches, adds>>
    /\ UNCHANGED <<backend, tokenExpiredAt, accounts, selectedIds, refreshingIds,
                   loading, error, loads, refreshes, gifts, batches, updates,
                   imports, crashed, ops>>

\* ------------------------------------------------------- handleUpdateToken
\* context menu "update token", then the token dialog submits
HandleUpdateToken(id) ==
    /\ UIFree
    /\ CardVisible(id)
    /\ updates' = Append(updates, id)
    /\ ops' = ops + 1
    /\ UNCHANGED <<sched, addModal, login, toasts, clock, currentId, switches, adds>>
    /\ UNCHANGED <<backend, tokenExpiredAt, accounts, selectedIds, refreshingIds,
                   loading, error, confirmModal, loads, refreshes, gifts, batches,
                   deletes, imports, lastToast, crashed>>

UpdateSettleOk(u) ==
    /\ ~crashed
    /\ u \in DOMAIN updates
    /\ accounts' = UpsertUsage(accounts, updates[u], Snapshot(updates[u]))
    /\ lastToast' = Toast("success", "token updated")
    /\ updates' = RemoveAt(updates, u)
    /\ UNCHANGED <<sched, addModal, login, toasts, clock, currentId, switches, adds>>
    /\ UNCHANGED <<backend, tokenExpiredAt, selectedIds, refreshingIds, loading,
                   error, confirmModal, loads, refreshes, gifts, batches, deletes,
                   imports, crashed, ops>>

\* the error is rethrown to the token dialog
UpdateSettleFail(u) ==
    /\ ~crashed
    /\ u \in DOMAIN updates
    /\ updates' = RemoveAt(updates, u)
    /\ UNCHANGED <<sched, addModal, login, toasts, clock, currentId, switches, adds>>
    /\ UNCHANGED <<backend, tokenExpiredAt, accounts, selectedIds, refreshingIds,
                   loading, error, confirmModal, loads, refreshes, gifts, batches,
                   deletes, imports, lastToast, crashed, ops>>

\* ---------------------------------------------------- handleImportAccounts
\* a file holding the accounts `blob` is chosen
HandleImportAccounts(blob) ==
    /\ UIFree
    /\ imports' = Append(imports, blob)
    /\ ops' = ops + 1
    /\ UNCHANGED <<sched, addModal, login, toasts, clock, currentId, switches, adds>>
    /\ UNCHANGED <<backend, tokenExpiredAt, accounts, selectedIds, refreshingIds,
                   loading, error, confirmModal, loads, refreshes, gifts, batches,
                   deletes, updates, lastToast, crashed>>

\* importAccounts resolved: accounts already present were skipped
ImportSettleOk(m) ==
    /\ ~crashed
    /\ m \in DOMAIN imports
    /\ LET added == SetToSeq(imports[m] \ Range(backend))
       IN /\ backend' = backend \o added
          /\ lastToast' = Toast("success", "imported")
    /\ loading' = TRUE
    /\ loads' = Append(loads, NewLoad(NoAfter))
    /\ imports' = RemoveAt(imports, m)
    /\ UNCHANGED <<sched, addModal, login, toasts, clock, currentId, switches, adds>>
    /\ UNCHANGED <<tokenExpiredAt, accounts, selectedIds, refreshingIds, error,
                   confirmModal, refreshes, gifts, batches, deletes, updates,
                   crashed, ops>>

ImportSettleFail(m) ==
    /\ ~crashed
    /\ m \in DOMAIN imports
    /\ lastToast' = Toast("error", "import failed")
    /\ imports' = RemoveAt(imports, m)
    /\ UNCHANGED <<sched, addModal, login, toasts, clock, currentId, switches, adds>>
    /\ UNCHANGED <<backend, tokenExpiredAt, accounts, selectedIds, refreshingIds,
                   loading, error, confirmModal, loads, refreshes, gifts, batches,
                   deletes, updates, crashed, ops>>

\* ------------------------------------------- token auto-refresh effect
MaxTicks == 1     \* interval ticks per run of SpecSched

NoCall == [st |-> "none", ids |-> {}, n |-> 0]

\* The effect has run: api.refreshAllTokens() is called once and the interval
\* is set.  calls is the number of refreshAllTokens calls not yet settled;
\* issued, ticks and last (the outcome of the call settled last, with the
\* value of issued at that moment) are history fields.
SchedStart ==
    [mounted |-> TRUE, timer |-> "set", calls |-> 1, issued |-> 1, ticks |-> 0,
     last |-> NoCall]

\* the interval callback: api.refreshAllTokens() is called, unconditionally
Tick ==
    /\ sched.timer = "set"
    /\ sched.ticks < MaxTicks
    /\ sched' = [sched EXCEPT !.calls = @ + 1, !.issued = @ + 1, !.ticks = @ + 1]
    /\ UNCHANGED <<backend, tokenExpiredAt, accounts, selectedIds, refreshingIds,
                   loading, error, confirmModal, loads, refreshes, gifts, batches,
                   deletes, updates, imports, lastToast, crashed, addModal, login,
                   toasts, clock, currentId, switches, adds, ops>>

\* RenewThen as an implementation that reloads once per renewed id would behave
RenewThen_LoadPerId(refreshed) ==
    /\ ~crashed
    /\ sched.calls > 0
    /\ refreshed \subseteq Range(backend)
    /\ tokenExpiredAt' = [id \in Ids |-> IF id \in refreshed THEN Now + 1
                                         ELSE tokenExpiredAt[id]]
    /\ sched' = [sched EXCEPT !.calls = @ - 1,
                              !.last = [st |-> "ok", ids |-> refreshed, n |-> sched.issued]]
    /\ IF refreshed # {}
       THEN /\ loading' = TRUE
            /\ loads' = loads \o [k \in 1..Cardinality(refreshed) |-> NewLoad(NoAfter)]
       ELSE UNCHANGED <<loading, loads>>
    /\ UNCHANGED <<backend, accounts, selectedIds, refreshingIds, error,
                   confirmModal, refreshes, gifts, batches, deletes, updates,
                   imports, lastToast, crashed, addModal, login, toasts, clock,
                   currentId, switches, adds, ops>>

\* refreshAllTokens resolved with the ids it renewed: loadAccounts() when the
\* array is not empty
RenewThen(refreshed) ==
    /\ ~crashed
    /\ sched.calls > 0
    /\ refreshed \subseteq Range(backend)
    /\ tokenExpiredAt' = [id \in Ids |-> IF id \in refreshed THEN Now + 1
                                         ELSE tokenExpiredAt[id]]
    /\ sched' = [sched EXCEPT !.calls = @ - 1,
                              !.last = [st |-> "ok", ids |-> refreshed, n |-> sched.issued]]
    /\ IF refreshed # {}
       THEN /\ loading' = TRUE
            /\ loads' = Append(loads, NewLoad(NoAfter))
       ELSE UNCHANGED <<loading, loads>>
    /\ UNCHANGED <<backend, accounts, selectedIds, refreshingIds, error,
                   confirmModal, refreshes, gifts, batches, deletes, updates,
                   imports, lastToast, crashed, addModal, login, toasts, clock,
                   currentId, switches, adds, ops>>

\* RenewCatch as an implementation whose failure handler clears the interval
\* would behave
RenewCatch_StopsTimer ==
    /\ ~crashed
    /\ sched.calls > 0
    /\ sched' = [sched EXCEPT !.calls = @ - 1, !.timer = "cleared",
                              !.last = [st |-> "fail", ids |-> {}, n |-> sched.issued]]
    /\ UNCHANGED <<backend, tokenExpiredAt, accounts, selectedIds, refreshingIds,
                   loading, error, confirmModal, loads, refreshes, gifts, batches,
                   deletes, updates, imports, lastToast, crashed, addModal, login,
                   toasts, clock, currentId, switches, adds, ops>>

\* refreshAllTokens rejected: .catch(console.error)
RenewCatch ==
    /\ ~crashed
    /\ sched.calls > 0
    /\ sched' = [sched EXCEPT !.calls = @ - 1,
                              !.last = [st |-> "fail", ids |-> {}, n |-> sched.issued]]
    /\ UNCHANGED <<backend, tokenExpiredAt, accounts, selectedIds, refreshingIds,
                   loading, error, confirmModal, loads, refreshes, gifts, batches,
                   deletes, updates, imports, lastToast, crashed, addModal, login,
                   toasts, clock, currentId, switches, adds, ops>>

\* Unmount as a cleanup that leaves the interval set would behave
Unmount_KeepsTimer ==
    /\ sched.mounted
    /\ sched' = [sched EXCEPT !.mounted = FALSE]
    /\ UNCHANGED <<backend, tokenExpiredAt, accounts, selectedIds, refreshingIds,
                   loading, error, confirmModal, loads, refreshes, gifts, batches,
                   deletes, updates, imports, lastToast, crashed, addModal, login,
                   toasts, clock, currentId, switches, adds, ops>>

\* the component unmounts: the effect's cleanup runs clearInterval(interval)
Unmount ==
    /\ sched.mounted
    /\ sched' = [sched EXCEPT !.mounted = FALSE, !.timer = "cleared"]
    /\ UNCHANGED <<backend, tokenExpiredAt, accounts, selectedIds, refreshingIds,
                   loading, error, confirmModal, loads, refreshes, gifts, batches,
                   deletes, updates, imports, lastToast, crashed, addModal, login,
                   toasts, clock, currentId, switches, adds, ops>>

\* ------------------------------------------------------ handleSwitchAccount
\* the success toast of a switch; about.ids is a history field: the id the
\* switch was for
SwitchedToast(id) ==
    [Toast("success", "account switched") EXCEPT !.about = [ids |-> <<id>>, res |-> <<>>]]

\* context menu "switch account": opens the dialog
HandleSwitchAccount(id) ==
    /\ UIFree
    /\ CardVisible(id)
    /\ confirmModal' = [kind |-> "switch", id |-> id, ids |-> <<>>, seen |-> {}]
    /\ UNCHANGED <<sched, addModal, login, toasts, clock, currentId, switches, adds>>
    /\ UNCHANGED <<backend, tokenExpiredAt, accounts, selectedIds, refreshingIds,
                   loading, error, loads, refreshes, gifts, batches, deletes,
                   updates, imports, lastToast, crashed, ops>>

\* onConfirm up to `await api.switchAccount`: the dialog closes first
ConfirmSwitch ==
    /\ ~crashed
    /\ confirmModal.kind = "switch"
    /\ confirmModal' = NoModal
    /\ lastToast' = Toast("info", "switching")
    /\ switches' = Append(switches, confirmModal.id)
    /\ ops' = ops + 1
    /\ UNCHANGED <<sched, addModal, login, toasts, clock, currentId, adds>>
    /\ UNCHANGED <<backend, tokenExpiredAt, accounts, selectedIds, refreshingIds,
                   loading, error, loads, refreshes, gifts, batches, deletes,
                   updates, imports, crashed>>

\* the backend's switchAccount(id): id becomes the one active account
BackendSwitchAccount(id) == id

\* switchAccount resolved: await loadAccounts(), then the success toast
SwitchSettleOk(s) ==
    /\ ~crashed
    /\ s \in DOMAIN switches
    /\ currentId' = BackendSwitchAccount(switches[s])
    /\ loading' = TRUE
    /\ loads' = Append(loads, NewLoad(AfterToast(SwitchedToast(switches[s]))))
    /\ switches' = RemoveAt(switches, s)
    /\ UNCHANGED <<sched, addModal, login, toasts, clock, adds>>
    /\ UNCHANGED <<backend, tokenExpiredAt, accounts, selectedIds, refreshingIds,
                   error, confirmModal, refreshes, gifts, batches, deletes,
                   updates, imports, lastToast, crashed, ops>>

\* switchAccount rejected: error toast
SwitchSettleFail(s) ==
    /\ ~crashed
    /\ s \in DOMAIN switches
    /\ lastToast' = Toast("error", "switch failed")
    /\ switches' = RemoveAt(switches, s)
    /\ UNCHANGED <<sched, addModal, login, toasts, clock, currentId, adds>>
    /\ UNCHANGED <<backend, tokenExpiredAt, accounts, selectedIds, refreshingIds,
                   loading, error, confirmModal, loads, refreshes, gifts, batches,
                   deletes, updates, imports, crashed, ops>>

\* ------------------------------------------------- AddAccountModal: extractToken
\* A string is a sequence of symbols.  "eyJ" is the three-character prefix;
\* "a", "b", "1" and the words "Token", "token", "Result", "null" are runs of
\* characters of [A-Za-z0-9_-]; " " is a space and "\n" stands for any of
\* \r, \n, \t; "!" is a character outside every class used by the code.
Quote == "\""
B64Syms == {"eyJ", "a", "b", "1", "Token", "token", "Result", "null"}
WsSyms == {" ", "\n"}

\* string | null
TokenOf(v) == [st |-> "token", v |-> v]
NullToken == [st |-> "null", v |-> <<>>]
NoToken == [st |-> "none", v |-> <<>>]

\* String.prototype.trim
RECURSIVE TrimLeft(_)
TrimLeft(s) == IF s # <<>> /\ Head(s) \in WsSyms THEN TrimLeft(Tail(s)) ELSE s

RECURSIVE TrimRight(_)
TrimRight(s) ==
    IF s # <<>> /\ s[Len(s)] \in WsSyms THEN TrimRight(SubSeq(s, 1, Len(s) - 1)) ELSE s

Trim(s) == TrimRight(TrimLeft(s))

\* .replace(/[\r\n\t]/g, '')
RECURSIVE StripControl(_)
StripControl(s) ==
    IF s = <<>> THEN <<>>
    ELSE (IF Head(s) = "\n" THEN <<>> ELSE <<Head(s)>>) \o StripControl(Tail(s))

\* the index of the first occurrence of c in s at or after i, or 0
RECURSIVE IndexFrom(_, _, _)
IndexFrom(s, c, i) ==
    IF i > Len(s) THEN 0 ELSE IF s[i] = c THEN i ELSE IndexFrom(s, c, i + 1)

\* String.prototype.split('.')
RECURSIVE SplitDot(_)
SplitDot(s) ==
    LET i == IndexFrom(s, ".", 1)
    IN IF i = 0 THEN <<s>>
       ELSE <<SubSeq(s, 1, i - 1)>> \o SplitDot(SubSeq(s, i + 1, Len(s)))

\* /^[A-Za-z0-9_-]+$/.test(part)
IsBase64Url(part) == part # <<>> /\ \A i \in DOMAIN part : part[i] \in B64Syms

\* parts.length === 3 && parts.every(...)
ThreeParts(s) ==
    LET parts == SplitDot(s)
    IN Len(parts) = 3 /\ \A i \in DOMAIN parts : IsBase64Url(parts[i])

ValidateAndCleanToken(token) ==
    LET cleaned == Trim(token)
        parts == SplitDot(cleaned)
    IN IF Len(parts) # 3 THEN NullToken
       ELSE IF ~(\A i \in DOMAIN parts : IsBase64Url(parts[i])) THEN NullToken
       ELSE TokenOf(cleaned)

\* ---- JSON.parse: null, numbers (runs of "1"), strings, arrays, objects
JNull == [t |-> "null", v |-> <<>>, m |-> <<>>]
JUndefined == [t |-> "undefined", v |-> <<>>, m |-> <<>>]
JNum == [t |-> "num", v |-> <<>>, m |-> <<>>]
JStr(v) == [t |-> "str", v |-> v, m |-> <<>>]
JArr(m) == [t |-> "arr", v |-> <<>>, m |-> m]
JObj(m) == [t |-> "obj", v |-> <<>>, m |-> m]
ParseFail == [ok |-> FALSE, val |-> JUndefined, next |-> 0]
Parsed(val, next) == [ok |-> TRUE, val |-> val, next |-> next]

RECURSIVE SkipWs(_, _)
SkipWs(s, i) == IF i <= Len(s) /\ s[i] \in WsSyms THEN SkipWs(s, i + 1) ELSE i

RECURSIVE SkipDigits(_, _)
SkipDigits(s, i) == IF i <= Len(s) /\ s[i] = "1" THEN SkipDigits(s, i + 1) ELSE i

RECURSIVE ParseValue(_, _)
RECURSIVE ParseMembers(_, _, _)
RECURSIVE ParseElements(_, _, _)

\* the members of an object after "{" or ","; acc holds <<key, value>> pairs
ParseMembers(s, i0, acc) ==
    LET i == SkipWs(s, i0)
    IN IF i > Len(s) \/ s[i] # Quote THEN ParseFail
       ELSE LET q == IndexFrom(s, Quote, i + 1)
            IN IF q = 0 THEN ParseFail
               ELSE LET key == SubSeq(s, i + 1, q - 1)
                        c == SkipWs(s, q + 1)
                    IN IF c > Len(s) \/ s[c] # ":" THEN ParseFail
                       ELSE LET r == ParseValue(s, c + 1)
                            IN IF ~r.ok THEN ParseFail
                               ELSE LET e == SkipWs(s, r.next)
                                        acc2 == Append(acc, <<key, r.val>>)
                                    IN IF e > Len(s) THEN ParseFail
                                       ELSE IF s[e] = "}" THEN Parsed(JObj(acc2), e + 1)
                                       ELSE IF s[e] = "," THEN ParseMembers(s, e + 1, acc2)
                                       ELSE ParseFail

\* the elements of an array after "[" or ","
ParseElements(s, i0, acc) ==
    LET r == ParseValue(s, i0)
    IN IF ~r.ok THEN ParseFail
       ELSE LET e == SkipWs(s, r.next)
                acc2 == Append(acc, r.val)
            IN IF e > Len(s) THEN ParseFail
               ELSE IF s[e] = "]" THEN Parsed(JArr(acc2), e + 1)
               ELSE IF s[e] = "," THEN ParseElements(s, e + 1, acc2)
               ELSE ParseFail

ParseValue(s, i0) ==
    LET i == SkipWs(s, i0)
    IN IF i > Len(s) THEN ParseFail
       ELSE IF s[i] = "null" THEN Parsed(JNull, i + 1)
       ELSE IF s[i] = "1" THEN Parsed(JNum, SkipDigits(s, i))
       ELSE IF s[i] = Quote
            THEN LET q == IndexFrom(s, Quote, i + 1)
                 IN IF q = 0 THEN ParseFail
                    ELSE Parsed(JStr(SubSeq(s, i + 1, q - 1)), q + 1)
       ELSE IF s[i] = "{"
            THEN LET j == SkipWs(s, i + 1)
                 IN IF j <= Len(s) /\ s[j] = "}" THEN Parsed(JObj(<<>>), j + 1)
                    ELSE ParseMembers(s, i + 1, <<>>)
       ELSE IF s[i] = "["
            THEN LET j == SkipWs(s, i + 1)
                 IN IF j <= Len(s) /\ s[j] = "]" THEN Parsed(JArr(<<>>), j + 1)
                    ELSE ParseElements(s, i + 1, <<>>)
       ELSE ParseFail

\* JSON.parse(text): the whole text is one value, or a SyntaxError
JsonParse(s) ==
    LET r == ParseValue(s, 1)
    IN IF r.ok /\ SkipWs(s, r.next) > Len(s) THEN r ELSE ParseFail

\* value.key on a value that is not null or undefined: the last member of an
\* object with that key; undefined on a string, a number and an array
GetProp(val, key) ==
    IF val.t = "obj" /\ \E k \in DOMAIN val.m : val.m[k][1] = <<key>>
    THEN LET k == CHOOSE k \in DOMAIN val.m :
                     /\ val.m[k][1] = <<key>>
                     /\ \A j \in DOMAIN val.m : val.m[j][1] = <<key>> => j <= k
         IN val.m[k][2]
    ELSE JUndefined

Truthy(val) ==
    CASE val.t \in {"null", "undefined"} -> FALSE
      [] val.t = "str" -> val.v # <<>>
      [] OTHER -> TRUE

\* the try block of case 2: a value returned from it, or nothing (the parse
\* threw, a property of null was read, or no recognized field held a string)
NoReturn == [returned |-> FALSE, res |-> NullToken]
Return(res) == [returned |-> TRUE, res |-> res]

\* an exception that leaves extractToken
Thrown == [st |-> "thrown", v |-> <<>>]

\* the statements inside the try after JSON.parse returned p: how they end
\* ("return" with res, "fall" out of the block, or "throw": JSON.parse's
\* SyntaxError, or the TypeError of reading json.Result when json is null)
TryParsed(p) ==
    IF ~p.ok THEN [k |-> "throw", res |-> NullToken]
    ELSE IF p.val.t = "null" THEN [k |-> "throw", res |-> NullToken]
    ELSE LET json == p.val
             result == GetProp(json, "Result")
             resultToken == IF result.t \in {"null", "undefined"} THEN JUndefined
                            ELSE GetProp(result, "Token")
             lower == GetProp(json, "token")
             upper == GetProp(json, "Token")
         IN IF Truthy(resultToken) /\ resultToken.t = "str"
            THEN [k |-> "return", res |-> ValidateAndCleanToken(resultToken.v)]
            ELSE IF Truthy(lower) /\ lower.t = "str"
            THEN [k |-> "return", res |-> ValidateAndCleanToken(lower.v)]
            ELSE IF Truthy(upper) /\ upper.t = "str"
            THEN [k |-> "return", res |-> ValidateAndCleanToken(upper.v)]
            ELSE [k |-> "fall", res |-> NullToken]

TryBody(trimmed) == TryParsed(JsonParse(trimmed))

\* catch { }: what the body threw is dropped
Catch(body) == IF body.k = "return" THEN Return(body.res) ELSE NoReturn

\* no catch: what the body threw leaves extractToken
Propagate(body) ==
    IF body.k = "return" THEN Return(body.res)
    ELSE IF body.k = "throw" THEN Return(Thrown)
    ELSE NoReturn

\* try { ... } without the catch
TryJson_NoCatch(trimmed) == Propagate(TryBody(trimmed))

\* try { ... } catch { }
TryJson(trimmed) == Catch(TryBody(trimmed))

\* ---- the regular expressions of cases 3 and 4; <<>> when nothing matches
\* /"Token"\s*:\s*"(eyJ[^"]+)"/ tried at position i: the capture group
LabeledAt(s, i) ==
    IF i + 2 > Len(s) \/ s[i] # Quote \/ s[i + 1] # "Token" \/ s[i + 2] # Quote
    THEN <<>>
    ELSE LET c == SkipWs(s, i + 3)
         IN IF c > Len(s) \/ s[c] # ":" THEN <<>>
            ELSE LET o == SkipWs(s, c + 1)
                 IN IF o + 1 > Len(s) \/ s[o] # Quote \/ s[o + 1] # "eyJ" THEN <<>>
                    ELSE LET q == IndexFrom(s, Quote, o + 2)
                         IN IF q = 0 \/ q = o + 2 THEN <<>>
                            ELSE SubSeq(s, o + 1, q - 1)

RECURSIVE MatchLabeledFrom(_, _)
MatchLabeledFrom(s, i) ==
    IF i > Len(s) THEN <<>>
    ELSE IF LabeledAt(s, i) # <<>> THEN LabeledAt(s, i)
    ELSE MatchLabeledFrom(s, i + 1)

MatchLabeled(s) == MatchLabeledFrom(s, 1)

\* the end of the longest run of [A-Za-z0-9_-] that starts at i (i - 1 if none)
RECURSIVE RunEnd(_, _)
RunEnd(s, i) == IF i <= Len(s) /\ s[i] \in B64Syms THEN RunEnd(s, i + 1) ELSE i - 1

\* /eyJ[A-Za-z0-9_-]+\.[A-Za-z0-9_-]+\.[A-Za-z0-9_-]+/ tried at position i
JwtAt(s, i) ==
    IF s[i] # "eyJ" THEN <<>>
    ELSE LET e1 == RunEnd(s, i + 1)
         IN IF e1 < i + 1 \/ e1 + 1 > Len(s) \/ s[e1 + 1] # "." THEN <<>>
            ELSE LET e2 == RunEnd(s, e1 + 2)
                 IN IF e2 < e1 + 2 \/ e2 + 1 > Len(s) \/ s[e2 + 1] # "." THEN <<>>
                    ELSE LET e3 == RunEnd(s, e2 + 2)
                         IN IF e3 < e2 + 2 THEN <<>> ELSE SubSeq(s, i, e3)

RECURSIVE MatchJwtFrom(_, _)
MatchJwtFrom(s, i) ==
    IF i > Len(s) THEN <<>>
    ELSE IF JwtAt(s, i) # <<>> THEN JwtAt(s, i)
    ELSE MatchJwtFrom(s, i + 1)

MatchJwt(s) == MatchJwtFrom(s, 1)

\* the result of a regex case: the validated match, or orElse without a match
MatchOr(match, orElse) ==
    IF match # <<>> THEN ValidateAndCleanToken(match) ELSE orElse

\* cases 3 and 4
RegexCases(trimmed) ==
    MatchOr(MatchLabeled(trimmed), MatchOr(MatchJwt(trimmed), NullToken))

\* the code after the try block, j being how the try block ended
AfterTry(j, trimmed) == IF j.returned THEN j.res ELSE RegexCases(trimmed)

\* extractToken from its second statement on
ExtractCleaned(trimmed) ==
    IF trimmed # <<>> /\ Head(trimmed) = "eyJ" /\ ThreeParts(trimmed)
    THEN TokenOf(trimmed)
    ELSE AfterTry(TryJson(trimmed), trimmed)

\* extractToken whose cleaning only trims: the variant that leaves \r, \n and
\* \t inside the text
ExtractToken_TrimOnly(input) == ExtractCleaned(Trim(input))

\* extractToken
ExtractToken(input) == ExtractCleaned(StripControl(Trim(input)))

\* ---- the manual-add form of AddAccountModal
\* tokenInput, loading and error are its useState values; token is a history
\* field, the value extractToken returned when the present input was
\* submitted; pc = "adding" while onAdd(token, cookies) is awaited.
\* started is useState browserLoginStarted; pc = "opening" while
\* api.startBrowserLogin() is awaited.
AddModalStart ==
    [open |-> FALSE, tokenInput |-> <<>>, loading |-> FALSE, error |-> "",
     token |-> NoToken, pc |-> "idle", started |-> FALSE]

\* ---- the login events of AddAccountModal
\* sub[e] follows one listen(e, handler) call of the mount effect: "requested"
\* when listen() was called, "registered" when the event system knows the
\* handler, "active" when the promise of listen() has resolved to its unlisten
\* function, "released" when that function has been called.  window: the
\* external login window is open and has not reported yet.
LoginEvents == {"login-success", "login-failed", "login-cancelled"}

LoginStart ==
    [mounted |-> TRUE, sub |-> [e \in LoginEvents |-> "requested"], window |-> FALSE]

\* candidate token strings: two well-formed tokens, and malformed ones (two
\* segments, four segments, a character outside the alphabet, no eyJ prefix,
\* an empty segment)
TokA == <<"eyJ", "a", ".", "a", ".", "a">>
TokB == <<"eyJ", "b", ".", "b", ".", "b">>
Malformed ==
    { <<"eyJ", "a", ".", "a">>,
      <<"eyJ", "a", ".", "a", ".", "a", ".", "a">>,
      <<"eyJ", "a", ".", "!", ".", "a">>,
      <<"a", ".", "a", ".", "a">>,
      <<"eyJ", "a", ".", ".", "a">> }
Candidates == {TokA, TokB} \cup Malformed

\* JSON text
JsonString(v) == <<Quote>> \o v \o <<Quote>>
JsonMember(key, text) == <<Quote, key, Quote, ":">> \o text

RECURSIVE JoinComma(_)
JoinComma(texts) ==
    IF texts = <<>> THEN <<>>
    ELSE IF Len(texts) = 1 THEN texts[1]
    ELSE texts[1] \o <<",">> \o JoinComma(Tail(texts))

JsonObject(members) == <<"{">> \o JoinComma(members) \o <<"}">>

\* an object with the recognized fields Result.Token, token and Token; <<>>
\* for a field leaves it out
JsonText(resultToken, lower, upper) ==
    JsonObject(
        (IF resultToken = <<>> THEN <<>>
         ELSE <<JsonMember("Result", JsonObject(<<JsonMember("Token", JsonString(resultToken))>>))>>)
        \o (IF lower = <<>> THEN <<>> ELSE <<JsonMember("token", JsonString(lower))>>)
        \o (IF upper = <<>> THEN <<>> ELSE <<JsonMember("Token", JsonString(upper))>>))

Pads == {<<>>, <<" ">>, <<"\n", " ">>}

BareInputs ==
    {pre \o c \o post : pre \in Pads, post \in Pads, c \in Candidates}
        \cup {<<"eyJ", "a", "\n", ".", "a", ".", "a">>, <<"eyJ", "a", " ", ".", "a", ".", "a">>}

\* s with the symbol c put in after its first k symbols
InsertAt(s, k, c) == SubSeq(s, 1, k) \o <<c>> \o SubSeq(s, k + 1, Len(s))

\* a well-formed token with \r, \n or \t inside it, at every place and at two
\* places at once, with and without whitespace around it
EmbeddedInputs ==
    {pre \o InsertAt(TokA, k, "\n") \o post :
        pre \in Pads, post \in Pads, k \in 1..(Len(TokA) - 1)}
        \cup {pre \o InsertAt(InsertAt(TokB, 4, "\n"), 2, "\n") \o post :
                 pre \in Pads, post \in Pads}

JsonInputs ==
    {JsonText(r, l, u) : r \in Candidates \cup {<<>>}, l \in Candidates \cup {<<>>},
                          u \in Candidates \cup {<<>>}}

\* JSON that is not an object, or whose recognized field is not a string
OtherJsonInputs ==
    { <<"null">>, <<"1">>, <<"1", "1">>, JsonString(TokA),
      <<"[">> \o JsonString(TokA) \o <<"]">>,
      JsonObject(<<JsonMember("token", <<"1">>), JsonMember("Token", JsonString(TokA))>>),
      JsonObject(<<JsonMember("Result", <<"null">>), JsonMember("token", JsonString(TokA))>>),
      JsonObject(<<JsonMember("token", JsonObject(<<>>)), JsonMember("a", JsonString(TokA))>>),
      JsonObject(<<JsonMember("token", JsonString(TokA)), JsonMember("token", JsonString(TokB))>>) }

\* text that is not JSON: a quoted "Token" field, optionally followed by an
\* inline candidate; JSON cut short; candidates inside other text
LabeledInputs ==
    {<<"!", " ">> \o JsonMember("Token", JsonString(c1)) \o <<" ">> \o c2 :
        c1 \in Candidates, c2 \in Candidates \cup {<<>>}}

CutJsonInputs == {<<"{">> \o JsonMember("token", JsonString(c)) : c \in Candidates}

TextInputs ==
    {<<"a", " ">> \o c \o <<" ", "a">> : c \in Candidates}
        \cup {<<"a">> \o c : c \in Candidates}
        \cup {<<" ">>, <<"a">>, <<"!", " ", "a">>}

TokenInputs ==
    BareInputs \cup EmbeddedInputs \cup JsonInputs \cup OtherJsonInputs
        \cup LabeledInputs
        \cup CutJsonInputs \cup TextInputs

\* the "add account" button: setShowAddModal(true)
OpenAddModal ==
    /\ UIFree
    /\ ~addModal.open
    /\ addModal' = [addModal EXCEPT !.open = TRUE]
    /\ UNCHANGED <<backend, tokenExpiredAt, accounts, selectedIds, refreshingIds,
                   loading, error, confirmModal, loads, refreshes, gifts, batches,
                   deletes, updates, imports, lastToast, crashed, sched, login,
                   toasts, clock, currentId, switches, adds, ops>>

\* the user edits the token field (disabled while loading)
SetTokenInput(text) ==
    /\ addModal.open
    /\ addModal.pc = "idle"
    /\ text # addModal.tokenInput
    /\ addModal' = [addModal EXCEPT !.tokenInput = text, !.token = NoToken]
    /\ UNCHANGED <<backend, tokenExpiredAt, accounts, selectedIds, refreshingIds,
                   loading, error, confirmModal, loads, refreshes, gifts, batches,
                   deletes, updates, imports, lastToast, crashed, sched, login,
                   toasts, clock, currentId, switches, adds, ops>>

\* handleManualSubmit after extractToken returned token, with a failed
\* extraction treated like a finished add: the variant that clears the input
\* and closes the modal
SubmitToken_ClosesOnFailure(token) ==
    IF token.st # "token"
    THEN /\ addModal' = [addModal EXCEPT !.error = "token not recognized",
                                         !.loading = FALSE,
                                         !.tokenInput = <<>>,
                                         !.open = FALSE,
                                         !.token = token]
         /\ UNCHANGED <<adds, ops>>
    ELSE /\ addModal' = [addModal EXCEPT !.error = "",
                                         !.loading = TRUE,
                                         !.token = token,
                                         !.pc = "adding"]
         /\ adds' = Append(adds, [token |-> token.v])
         /\ ops' = ops + 1

\* handleManualSubmit after extractToken returned token (or threw), up to
\* `await onAdd(token, cookies)`: App's handleAddAccount runs to its
\* `await api.addAccountByToken(token, cookies)`
SubmitToken(token) ==
    IF token.st = "thrown"
    THEN /\ addModal' = [addModal EXCEPT !.error = "exception message",
                                         !.loading = FALSE,
                                         !.token = token]
         /\ UNCHANGED <<adds, ops>>
    ELSE IF token.st = "null"
    THEN /\ addModal' = [addModal EXCEPT !.error = "token not recognized",
                                         !.loading = FALSE,
                                         !.token = token]
         /\ UNCHANGED <<adds, ops>>
    ELSE /\ addModal' = [addModal EXCEPT !.error = "",
                                         !.loading = TRUE,
                                         !.token = token,
                                         !.pc = "adding"]
         /\ adds' = Append(adds, [token |-> token.v])
         /\ ops' = ops + 1

\* the form is submitted
HandleManualSubmit ==
    /\ addModal.open
    /\ addModal.pc = "idle"
    /\ IF Trim(addModal.tokenInput) = <<>>
       THEN /\ addModal' = [addModal EXCEPT !.error = "empty input"]
            /\ UNCHANGED <<adds, ops>>
       ELSE SubmitToken(ExtractToken(addModal.tokenInput))
    /\ UNCHANGED <<backend, tokenExpiredAt, accounts, selectedIds, refreshingIds,
                   loading, error, confirmModal, loads, refreshes, gifts, batches,
                   deletes, updates, imports, lastToast, crashed, sched, login,
                   toasts, clock, currentId, switches>>

\* the account a token belongs to, 0 when the backend knows none for it
AccountOfToken(v) == IF v = TokA THEN 1 ELSE IF v = TokB THEN 2 ELSE 0

\* the backend's account list after addAccountByToken: an account that is
\* already listed is not listed twice
BackendAddAccount(list, id) == IF id \in Range(list) THEN list ELSE Append(list, id)

\* addAccountByToken resolved: toast, then handleAddAccount awaits loadAccounts()
AddSettleOk(a) ==
    /\ ~crashed
    /\ a \in DOMAIN adds
    /\ AccountOfToken(adds[a].token) # 0
    /\ backend' = BackendAddAccount(backend, AccountOfToken(adds[a].token))
    /\ lastToast' = Toast("success", "account added")
    /\ loading' = TRUE
    /\ loads' = Append(loads, NewLoad(AfterAdded))
    /\ adds' = RemoveAt(adds, a)
    /\ UNCHANGED <<tokenExpiredAt, accounts, selectedIds, refreshingIds, error,
                   confirmModal, refreshes, gifts, batches, deletes, updates, imports,
                   crashed, sched, addModal, login, toasts, clock, currentId,
                   switches, ops>>

\* addAccountByToken rejected: handleAddAccount throws, the form's catch shows
\* the message and its finally clears loading; the modal stays as it is
AddSettleFail(a) ==
    /\ ~crashed
    /\ a \in DOMAIN adds
    /\ addModal' = [addModal EXCEPT !.error = "add failed", !.loading = FALSE,
                                    !.pc = "idle"]
    /\ adds' = RemoveAt(adds, a)
    /\ UNCHANGED <<backend, tokenExpiredAt, accounts, selectedIds, refreshingIds,
                   loading, error, confirmModal, loads, refreshes, gifts, batches,
                   deletes, updates, imports, lastToast, crashed, sched, login,
                   toasts, clock, currentId, switches, ops>>

\* handleCloseInternal from the overlay or the close button in the header,
\* neither of which is disabled while loading: the fields are reset and
\* onClose() hides the modal; `loading` and a pending onAdd are left alone
CloseAddModal ==
    /\ addModal.open
    /\ addModal' = [addModal EXCEPT !.error = "", !.tokenInput = <<>>,
                                    !.started = FALSE, !.open = FALSE]
    /\ UNCHANGED <<backend, tokenExpiredAt, accounts, selectedIds, refreshingIds,
                   loading, error, confirmModal, loads, refreshes, gifts, batches,
                   deletes, updates, imports, lastToast, crashed, sched, login,
                   toasts, clock, currentId, switches, adds, ops>>

\* "open login window" in browser mode (disabled while loading or started),
\* up to `await api.startBrowserLogin()`
HandleBrowserLogin ==
    /\ login.mounted
    /\ addModal.open
    /\ addModal.pc = "idle"
    /\ ~addModal.loading
    /\ ~addModal.started
    /\ addModal' = [addModal EXCEPT !.loading = TRUE, !.error = "",
                                    !.started = TRUE, !.pc = "opening"]
    /\ ops' = ops + 1
    /\ UNCHANGED <<backend, tokenExpiredAt, accounts, selectedIds, refreshingIds,
                   loading, error, confirmModal, loads, refreshes, gifts, batches,
                   deletes, updates, imports, lastToast, crashed, sched, login,
                   toasts, clock, currentId, switches, adds>>

\* startBrowserLogin resolved: the login window is open; finally setLoading(false)
BrowserLoginOpened ==
    /\ addModal.pc = "opening"
    /\ addModal' = [addModal EXCEPT !.loading = FALSE, !.pc = "idle"]
    /\ login' = [login EXCEPT !.window = TRUE]
    /\ UNCHANGED <<backend, tokenExpiredAt, accounts, selectedIds, refreshingIds,
                   loading, error, confirmModal, loads, refreshes, gifts, batches,
                   deletes, updates, imports, lastToast, crashed, sched, toasts,
                   clock, currentId, switches, adds, ops>>

\* startBrowserLogin rejected: the catch shows the message and clears the flag
BrowserLoginOpenFail ==
    /\ addModal.pc = "opening"
    /\ addModal' = [addModal EXCEPT !.error = "open failed", !.started = FALSE,
                                    !.loading = FALSE, !.pc = "idle"]
    /\ UNCHANGED <<backend, tokenExpiredAt, accounts, selectedIds, refreshingIds,
                   loading, error, confirmModal, loads, refreshes, gifts, batches,
                   deletes, updates, imports, lastToast, crashed, sched, login,
                   toasts, clock, currentId, switches, adds, ops>>

\* the event system has taken the handler of listen(e, handler)
ListenRegistered(e) ==
    /\ login.sub[e] = "requested"
    /\ login' = [login EXCEPT !.sub[e] = "registered"]
    /\ UNCHANGED <<backend, tokenExpiredAt, accounts, selectedIds, refreshingIds,
                   loading, error, confirmModal, loads, refreshes, gifts, batches,
                   deletes, updates, imports, lastToast, crashed, sched, toasts,
                   clock, addModal, currentId, switches, adds, ops>>

\* the promise of listen(e, handler) resolves to the unlisten function; when
\* the cleanup has run already, its `.then((fn) => fn())` calls it now
ListenResolved(e) ==
    /\ login.sub[e] = "registered"
    /\ login' = [login EXCEPT !.sub[e] = IF login.mounted THEN "active" ELSE "released"]
    /\ UNCHANGED <<backend, tokenExpiredAt, accounts, selectedIds, refreshingIds,
                   loading, error, confirmModal, loads, refreshes, gifts, batches,
                   deletes, updates, imports, lastToast, crashed, sched, toasts,
                   clock, addModal, currentId, switches, adds, ops>>

\* the effect's cleanup: unlistenX.then((fn) => fn()) for the three promises;
\* a promise that has resolved has its unlisten function called, one that is
\* still pending keeps its subscription until it resolves
UnmountModal ==
    /\ login.mounted
    /\ login' = [login EXCEPT !.mounted = FALSE,
                              !.sub = [e \in LoginEvents |->
                                         IF login.sub[e] = "active" THEN "released"
                                         ELSE login.sub[e]]]
    /\ UNCHANGED <<backend, tokenExpiredAt, accounts, selectedIds, refreshingIds,
                   loading, error, confirmModal, loads, refreshes, gifts, batches,
                   deletes, updates, imports, lastToast, crashed, sched, toasts,
                   clock, addModal, currentId, switches, adds, ops>>

\* the login window reports e: the event reaches the handlers the event
\* system holds for e
Delivered(e) ==
    /\ login.window
    /\ login.sub[e] \in {"registered", "active"}

\* handler of login-success: toast, onAccountAdded() (loadAccounts, not
\* awaited), setBrowserLoginStarted(false), handleCloseInternal()
LoginSuccess ==
    /\ Delivered("login-success")
    /\ lastToast' = Toast("success", "browser login succeeded")
    /\ loading' = TRUE
    /\ loads' = Append(loads, NewLoad(NoAfter))
    /\ addModal' = [addModal EXCEPT !.started = FALSE, !.error = "",
                                    !.tokenInput = <<>>, !.open = FALSE]
    /\ login' = [login EXCEPT !.window = FALSE]
    /\ UNCHANGED <<backend, tokenExpiredAt, accounts, selectedIds, refreshingIds,
                   error, confirmModal, refreshes, gifts, batches, deletes, updates,
                   imports, crashed, sched, toasts, clock, currentId, switches, adds,
                   ops>>

\* handler of login-failed: setError(payload), setBrowserLoginStarted(false)
LoginFailed ==
    /\ Delivered("login-failed")
    /\ addModal' = [addModal EXCEPT !.error = "login failed", !.started = FALSE]
    /\ login' = [login EXCEPT !.window = FALSE]
    /\ UNCHANGED <<backend, tokenExpiredAt, accounts, selectedIds, refreshingIds,
                   loading, error, confirmModal, loads, refreshes, gifts, batches,
                   deletes, updates, imports, lastToast, crashed, sched, toasts,
                   clock, currentId, switches, adds, ops>>

\* handler of login-cancelled: setBrowserLoginStarted(false)
LoginCancelled ==
    /\ Delivered("login-cancelled")
    /\ addModal' = [addModal EXCEPT !.started = FALSE]
    /\ login' = [login EXCEPT !.window = FALSE]
    /\ UNCHANGED <<backend, tokenExpiredAt, accounts, selectedIds, refreshingIds,
                   loading, error, confirmModal, loads, refreshes, gifts, batches,
                   deletes, updates, imports, lastToast, crashed, sched, toasts,
                   clock, currentId, switches, adds, ops>>

\* ------------------------------------------------------------- useToast
MaxToasts == 3    \* toasts shown at once
FirstClock == 9   \* Date.now() at the first render
MaxClock == 11    \* the last reading of Date.now()

\* Number.prototype.toString(): the decimal digits of a non-negative integer
Digit(d) == <<"0", "1", "2", "3", "4", "5", "6", "7", "8", "9">>[d + 1]

RECURSIVE ToString(_)
ToString(n) == IF n < 10 THEN <<Digit(n)>> ELSE ToString(n \div 10) \o <<Digit(n % 10)>>

ToastTypes == {"success", "error", "warning", "info"}

\* time passes: Date.now() reads one more
ClockTick ==
    /\ clock < MaxClock
    /\ clock' = clock + 1
    /\ UNCHANGED <<backend, tokenExpiredAt, accounts, selectedIds, refreshingIds,
                   loading, error, confirmModal, loads, refreshes, gifts, batches,
                   deletes, updates, imports, lastToast, crashed, sched, addModal,
                   currentId, switches, adds, login, toasts, ops>>

\* addToast(type, message): id = Date.now().toString(), appended to the list
AddToast(type) ==
    /\ toasts' = Append(toasts, [id |-> ToString(clock), type |-> type])
    /\ UNCHANGED <<backend, tokenExpiredAt, accounts, selectedIds, refreshingIds,
                   loading, error, confirmModal, loads, refreshes, gifts, batches,
                   deletes, updates, imports, lastToast, crashed, sched, addModal,
                   currentId, switches, adds, login, clock, ops>>

\* prev.filter((t) => t.id !== id)
WithoutId(list, id) ==
    LET keep == {i \in DOMAIN list : list[i].id # id}
    IN [k \in 1..Cardinality(keep) |->
           list[CHOOSE i \in keep : Cardinality({j \in keep : j < i}) = k - 1]]

\* removeToast(id), called for a toast that is shown (its close button or its
\* timeout)
RemoveToast(id) ==
    /\ \E i \in DOMAIN toasts : toasts[i].id = id
    /\ toasts' = WithoutId(toasts, id)
    /\ UNCHANGED <<backend, tokenExpiredAt, accounts, selectedIds, refreshingIds,
                   loading, error, confirmModal, loads, refreshes, gifts, batches,
                   deletes, updates, imports, lastToast, crashed, sched, addModal,
                   currentId, switches, adds, login, clock, ops>>

\* ------------------------------------------------------------ specification
\* After the first render: empty list, loading, and the mount effect has
\* called loadAccounts().
Init ==
    /\ backend \in {SetToSeq(Ids), SetToSeq(Ids \ {1})}
    /\ tokenExpiredAt = [id \in Ids |-> IF id = 1 THEN Now - 1
                                        ELSE IF id = 2 THEN NoExpiry ELSE Now + 1]
    /\ accounts = <<>>
    /\ selectedIds = {}
    /\ refreshingIds = {}
    /\ loading = TRUE
    /\ error = "null"
    /\ confirmModal = NoModal
    /\ loads = <<NewLoad(NoAfter)>>
    /\ refreshes = <<>>
    /\ gifts = <<>>
    /\ batches = <<>>
    /\ deletes = <<>>
    /\ updates = <<>>
    /\ imports = <<>>
    /\ lastToast = NoToast
    /\ crashed = FALSE
    /\ sched = SchedStart
    /\ addModal = AddModalStart
    /\ login = LoginStart
    /\ toasts = <<>>
    /\ clock = FirstClock
    /\ currentId = 0
    /\ switches = <<>>
    /\ adds = <<>>
    /\ ops = 0

Outcomes == {"ok", "fail"}

\* every loadAccounts step
LoadStep ==
    \/ \E i \in DOMAIN loads : BackendGetAccounts(i)
    \/ \E i \in DOMAIN loads : LoadListFail(i)
    \/ \E i \in DOMAIN loads : LoadPublish(i)
    \/ \E i \in DOMAIN loads : \E k \in DOMAIN loads[i].res : \E o \in Outcomes : LoadUsageSettle(i, k, o)

\* Spec: loads, single and batch refresh, claim gift, token update, single delete
Next ==
    \/ LoadStep
    \/ \E id \in Ids : ops < MaxOps /\ HandleRefreshAccount(id)
    \/ \E r \in DOMAIN refreshes : RefreshSettleOk(r)
    \/ \E r \in DOMAIN refreshes : RefreshSettleFail(r)
    \/ \E id \in Ids : HandleClaimGift(id)
    \/ ops < MaxOps /\ ConfirmGift
    \/ \E g \in DOMAIN gifts : GiftClaimOk(g)
    \/ \E g \in DOMAIN gifts : GiftClaimFail(g)
    \/ CancelConfirm
    \/ \E id \in Ids : HandleSelectAccount(id)
    \/ HandleSelectAll
    \/ ops < MaxOps /\ HandleBatchRefresh
    \/ \E b \in DOMAIN batches : \E k \in DOMAIN batches[b].res : \E o \in Outcomes : BatchRefreshSettle(b, k, o)
    \/ \E id \in Ids : HandleDeleteAccount(id)
    \/ ops < MaxOps /\ ConfirmDelete
    \/ \E d \in DOMAIN deletes : DeleteSettleOk(d)
    \/ \E d \in DOMAIN deletes : DeleteSettleFail(d)
    \/ \E id \in Ids : ops < MaxOps /\ HandleUpdateToken(id)
    \/ \E u \in DOMAIN updates : UpdateSettleOk(u)
    \/ \E u \in DOMAIN updates : UpdateSettleFail(u)

Spec == Init /\ [][Next]_vars

\* SpecBatch: loads, selection, batch refresh, batch delete, delete expired, import
NextBatch ==
    \/ LoadStep
    \/ CancelConfirm
    \/ \E id \in Ids : HandleSelectAccount(id)
    \/ HandleSelectAll
    \/ ops < MaxBatchOps /\ HandleBatchRefresh
    \/ \E b \in DOMAIN batches : \E k \in DOMAIN batches[b].res : \E o \in Outcomes : BatchRefreshSettle(b, k, o)
    \/ HandleBatchDelete
    \/ HandleDeleteExpiredAccounts
    \/ ops < MaxBatchOps /\ ConfirmBatchDelete
    \/ \E b \in DOMAIN batches : \E k \in DOMAIN batches[b].res : \E o \in Outcomes : BatchDeleteSettle(b, k, o)
    \/ \E blob \in SUBSET Ids \ {{}} : ops < MaxBatchOps /\ HandleImportAccounts(blob)
    \/ \E m \in DOMAIN imports : ImportSettleOk(m)
    \/ \E m \in DOMAIN imports : ImportSettleFail(m)

SpecBatch == Init /\ [][NextBatch]_vars

\* SpecBatchCore: the batch handlers alone (selection, batch refresh, batch
\* delete and the loads they start); SpecCounts adds delete expired, the
\* handler that can be asked to work on no account at all.
NextBatchCore ==
    \/ LoadStep
    \/ CancelConfirm
    \/ \E id \in Ids : HandleSelectAccount(id)
    \/ HandleSelectAll
    \/ ops < MaxBatchOps /\ HandleBatchRefresh
    \/ \E b \in DOMAIN batches : \E k \in DOMAIN batches[b].res : \E o \in Outcomes : BatchRefreshSettle(b, k, o)
    \/ HandleBatchDelete
    \/ ops < MaxBatchOps /\ ConfirmBatchDelete
    \/ \E b \in DOMAIN batches : \E k \in DOMAIN batches[b].res : \E o \in Outcomes : BatchDeleteSettle(b, k, o)

SpecBatchCore == Init /\ [][NextBatchCore]_vars

NextCounts ==
    \/ NextBatchCore
    \/ HandleDeleteExpiredAccounts

SpecCounts == Init /\ [][NextCounts]_vars

\* SpecSched: the token auto-refresh effect and the loads it starts
NextSched ==
    \/ LoadStep
    \/ Tick
    \/ \E refreshed \in SUBSET Ids : RenewThen(refreshed)
    \/ RenewCatch
    \/ Unmount

SpecSched == Init /\ [][NextSched]_vars

\* SpecRenew: the scheduler with the renewal answering for no account, for one
\* account or for every account.
RenewedSets == {{}, {1}, Ids}

NextRenew ==
    \/ LoadStep
    \/ Tick
    \/ \E refreshed \in RenewedSets : RenewThen(refreshed)
    \/ RenewCatch
    \/ Unmount

SpecRenew == Init /\ [][NextRenew]_vars

\* SpecExpiry: delete expired over every kind of token_expired_at, and the loads
InitExpiry ==
    /\ backend = SetToSeq(Ids)
    /\ tokenExpiredAt \in [Ids -> ExpiryVals]
    /\ accounts = <<>>
    /\ selectedIds = {}
    /\ refreshingIds = {}
    /\ loading = TRUE
    /\ error = "null"
    /\ confirmModal = NoModal
    /\ loads = <<NewLoad(NoAfter)>>
    /\ refreshes = <<>>
    /\ gifts = <<>>
    /\ batches = <<>>
    /\ deletes = <<>>
    /\ updates = <<>>
    /\ imports = <<>>
    /\ lastToast = NoToast
    /\ crashed = FALSE
    /\ sched = SchedStart
    /\ addModal = AddModalStart
    /\ login = LoginStart
    /\ toasts = <<>>
    /\ clock = FirstClock
    /\ currentId = 0
    /\ switches = <<>>
    /\ adds = <<>>
    /\ ops = 0

NextExpiry ==
    \/ LoadStep
    \/ HandleDeleteExpiredAccounts
    \/ CancelConfirm
    \/ ops < MaxBatchOps /\ ConfirmBatchDelete
    \/ \E b \in DOMAIN batches : \E k \in DOMAIN batches[b].res : \E o \in Outcomes : BatchDeleteSettle(b, k, o)

SpecExpiry == InitExpiry /\ [][NextExpiry]_vars

\* SpecStale: delete expired next to the token renewals of the scheduler
NextStale ==
    \/ NextExpiry
    \/ \E refreshed \in SUBSET Ids : RenewThen(refreshed)
    \/ RenewCatch

SpecStale == Init /\ [][NextStale]_vars

\* SpecExtract: the manual-add form over the token inputs
NextExtract ==
    \/ OpenAddModal
    \/ \E text \in TokenInputs : SetTokenInput(text)
    \/ HandleManualSubmit

SpecExtract == Init /\ [][NextExtract]_vars

\* ---- switching the active account: any account, or none, is active at first
InitSwitch ==
    /\ backend = SetToSeq(Ids)
    /\ tokenExpiredAt = [id \in Ids |-> Now + 1]
    /\ accounts = <<>>
    /\ selectedIds = {}
    /\ refreshingIds = {}
    /\ loading = TRUE
    /\ error = "null"
    /\ confirmModal = NoModal
    /\ loads = <<NewLoad(NoAfter)>>
    /\ refreshes = <<>>
    /\ gifts = <<>>
    /\ batches = <<>>
    /\ deletes = <<>>
    /\ updates = <<>>
    /\ imports = <<>>
    /\ lastToast = NoToast
    /\ crashed = FALSE
    /\ sched = SchedStart
    /\ addModal = AddModalStart
    /\ login = LoginStart
    /\ toasts = <<>>
    /\ clock = FirstClock
    /\ currentId \in Ids \cup {0}
    /\ switches = <<>>
    /\ adds = <<>>
    /\ ops = 0

NextSwitch ==
    \/ LoadStep
    \/ \E id \in Ids : HandleSwitchAccount(id)
    \/ CancelConfirm
    \/ ops < MaxOps /\ ConfirmSwitch
    \/ \E s \in DOMAIN switches : SwitchSettleOk(s)
    \/ \E s \in DOMAIN switches : SwitchSettleFail(s)

SpecSwitch == InitSwitch /\ [][NextSwitch]_vars

\* SpecStore: loads with adds, imports and single deletes
AddInputs == {TokA}

NextStore ==
    \/ LoadStep
    \/ OpenAddModal
    \/ \E text \in AddInputs : SetTokenInput(text)
    \/ ops < MaxBatchOps /\ HandleManualSubmit
    \/ \E a \in DOMAIN adds : AddSettleOk(a)
    \/ \E a \in DOMAIN adds : AddSettleFail(a)
    \/ ops < MaxBatchOps /\ HandleImportAccounts(Ids)
    \/ \E m \in DOMAIN imports : ImportSettleOk(m)
    \/ \E m \in DOMAIN imports : ImportSettleFail(m)
    \/ \E id \in Ids : HandleDeleteAccount(id)
    \/ CancelConfirm
    \/ ops < MaxBatchOps /\ ConfirmDelete
    \/ \E d \in DOMAIN deletes : DeleteSettleOk(d)
    \/ \E d \in DOMAIN deletes : DeleteSettleFail(d)

SpecStore == Init /\ [][NextStore]_vars

\* SpecAdd: the manual add form alone, with the ways to close it, and the
\* loads an accepted add starts
NextAdd ==
    \/ LoadStep
    \/ OpenAddModal
    \/ CloseAddModal
    \/ \E text \in AddInputs : SetTokenInput(text)
    \/ ops < MaxOps /\ HandleManualSubmit
    \/ \E a \in DOMAIN adds : AddSettleOk(a)
    \/ \E a \in DOMAIN adds : AddSettleFail(a)

SpecAdd == Init /\ [][NextAdd]_vars

\* SpecDelete: selection and the single delete with its confirmation dialog
NextDelete ==
    \/ LoadStep
    \/ \E id \in Ids : HandleSelectAccount(id)
    \/ HandleSelectAll
    \/ \E id \in Ids : HandleDeleteAccount(id)
    \/ CancelConfirm
    \/ ops < MaxBatchOps /\ ConfirmDelete
    \/ \E d \in DOMAIN deletes : DeleteSettleOk(d)
    \/ \E d \in DOMAIN deletes : DeleteSettleFail(d)

SpecDelete == Init /\ [][NextDelete]_vars

\* SpecLogin: the browser login of the add-account modal, its three events
\* and the teardown of the modal component
NextLogin ==
    \/ LoadStep
    \/ OpenAddModal
    \/ CloseAddModal
    \/ ops < MaxOps /\ HandleBrowserLogin
    \/ BrowserLoginOpened
    \/ BrowserLoginOpenFail
    \/ \E e \in LoginEvents : ListenRegistered(e)
    \/ \E e \in LoginEvents : ListenResolved(e)
    \/ UnmountModal
    \/ LoginSuccess
    \/ LoginFailed
    \/ LoginCancelled

SpecLogin == Init /\ [][NextLogin]_vars

\* SpecToast: the toast list of useToast and the clock its ids are read from
NextToast ==
    \/ ClockTick
    \/ \E type \in ToastTypes : Len(toasts) < MaxToasts /\ AddToast(type)
    \/ \E id \in {ToString(n) : n \in FirstClock..MaxClock} : RemoveToast(id)

SpecToast == Init /\ [][NextToast]_vars

\* SpecQuiesce: SpecStore together with the renewal calls of the scheduler
NextQuiesce ==
    \/ NextStore
    \/ \E refreshed \in SUBSET Ids : RenewThen(refreshed)
    \/ RenewCatch

SpecQuiesce == Init /\ [][NextQuiesce]_vars

\* SpecLoad: loads one after the other, the mount-time load and then the
\* reloads of the scheduler, each started when no load is under way
NextLoad ==
    \/ LoadStep
    \/ Tick
    \/ \E refreshed \in SUBSET Ids : loads = <<>> /\ RenewThen(refreshed)
    \/ RenewCatch

SpecLoad == Init /\ [][NextLoad]_vars

\* SpecFrame: the three operations that write one account's usage (single
\* refresh, batch refresh, token update), with loads and selection
NextFrame ==
    \/ LoadStep
    \/ \E id \in Ids : HandleSelectAccount(id)
    \/ \E id \in Ids : ops < MaxBatchOps /\ HandleRefreshAccount(id)
    \/ \E r \in DOMAIN refreshes : RefreshSettleOk(r)
    \/ \E r \in DOMAIN refreshes : RefreshSettleFail(r)
    \/ ops < MaxBatchOps /\ HandleBatchRefresh
    \/ \E b \in DOMAIN batches : \E k \in DOMAIN batches[b].res : \E o \in Outcomes : BatchRefreshSettle(b, k, o)
    \/ \E id \in Ids : ops < MaxBatchOps /\ HandleUpdateToken(id)
    \/ \E u \in DOMAIN updates : UpdateSettleOk(u)
    \/ \E u \in DOMAIN updates : UpdateSettleFail(u)

SpecFrame == InitSwitch /\ [][NextFrame]_vars






\* =================================================================== claims

\* getAccountUsage(id) calls in flight, by origin
RefreshFetches(id) == Cardinality({r \in DOMAIN refreshes : refreshes[r].id = id})

BatchFetches(id) ==
    Cardinality({<<b, k>> \in (DOMAIN batches) \X (1..Cardinality(Ids)) :
        /\ batches[b].kind = "refresh"
        /\ k \in DOMAIN batches[b].res
        /\ batches[b].res[k] = "pending"
        /\ batches[b].ids[k] = id})

LoadFetches(id) ==
    Cardinality({<<i, k>> \in (DOMAIN loads) \X (1..Cardinality(Ids)) :
        /\ loads[i].pc = "usage"
        /\ k \in DOMAIN loads[i].res
        /\ loads[i].res[k] = "pending"
        /\ loads[i].list[k].id = id})

UsageFetchesInFlight(id) == RefreshFetches(id) + BatchFetches(id) + LoadFetches(id)

\* C1: a handleRefreshAccount(id) invoked while an earlier one for the same id
\* is outstanding issues no getAccountUsage call, so at most one call of
\* handleRefreshAccount per id awaits getAccountUsage.
C1_SecondRefreshIsNoop ==
    \A id \in Ids : RefreshFetches(id) <= 1

\* C2: for every id at most one getAccountUsage(id) is in flight, whichever of
\* single refresh, batch refresh, claim-gift refresh and loadAccounts issued it.
C2_OneFetchPerId ==
    \A id \in Ids : UsageFetchesInFlight(id) <= 1

\* C3: an id is in refreshingIds only while a handleRefreshAccount for it is
\* outstanding, and a handleRefreshAccount(id) invoked when none is outstanding
\* (every earlier one has settled) issues a getAccountUsage call.
C3_GuardOnlyWhileOutstanding ==
    \A id \in refreshingIds : RefreshFetches(id) >= 1

C3_RefreshAfterSettleFetches ==
    /\ \A id \in Ids :
          HandleRefreshAccount(id) /\ RefreshFetches(id) = 0
              => \E r \in DOMAIN refreshes' : refreshes'[r].id = id
    /\ \A g \in DOMAIN gifts :
          GiftClaimOk(g) /\ RefreshFetches(gifts[g].id) = 0
              => \E r \in DOMAIN refreshes' : refreshes'[r].id = gifts[g].id

C3_GuardLifecycle ==
    [](C3_GuardOnlyWhileOutstanding) /\ [][C3_RefreshAfterSettleFetches]_vars

\* C4: every selected id is the id of an account in the store.
C4_SelectionInStore ==
    selectedIds \subseteq AccountIds

\* C5: once removeAccount(id) has succeeded the id is neither selected nor in
\* refreshingIds.
C5_DeleteEvicts ==
    [][\A d \in DOMAIN deletes :
          DeleteSettleOk(d) => /\ deletes[d] \notin selectedIds'
                               /\ deletes[d] \notin refreshingIds']_vars

\* C6: the usage stored for an account is undefined, null, or a snapshot fetched
\* for that account's id.
C6_UsageOfOwnId ==
    \A k \in DOMAIN accounts :
        accounts[k].usage.st = "ok" => accounts[k].usage.of = accounts[k].id

\* C7: a usage result that arrives for an id no longer in the store raises no
\* error, adds no account, and alters no account: an account's usage changes
\* only to a result fetched for its own id.
OnlyOwnResults ==
    /\ ~crashed'
    /\ Len(accounts') = Len(accounts)
    /\ \A m \in DOMAIN accounts :
          /\ accounts'[m].id = accounts[m].id
          /\ accounts'[m].usage # accounts[m].usage
                => accounts'[m].usage.of \in {0, accounts[m].id}

C7_StaleResultStep ==
    /\ \A r \in DOMAIN refreshes :
          RefreshSettleOk(r) /\ refreshes[r].id \notin AccountIds
              => accounts' = accounts /\ ~crashed'
    /\ \A u \in DOMAIN updates :
          UpdateSettleOk(u) /\ updates[u] \notin AccountIds
              => accounts' = accounts /\ ~crashed'
    /\ \A b \in DOMAIN batches : \A k \in DOMAIN batches[b].res :
          BatchRefreshSettle(b, k, "ok") /\ batches[b].ids[k] \notin AccountIds
              => accounts' = accounts /\ ~crashed'
    /\ \A i \in DOMAIN loads : \A k \in DOMAIN loads[i].res : \A o \in Outcomes :
          /\ LoadUsageSettle(i, k, o)
          /\ \E j \in DOMAIN loads[i].list : loads[i].list[j].id \notin AccountIds
          => OnlyOwnResults

C7_StaleResultIsNoop == [][C7_StaleResultStep]_vars

\* C8: when the getAccounts call of loadAccounts fails, the error is set,
\* loading ends false and accounts is what it was; calling loadAccounts does not
\* touch accounts either.
C8_FailedLoadStep ==
    /\ \A i \in DOMAIN loads :
          loads[i].pc = "list" /\ loads' = RemoveAt(loads, i)
              => /\ accounts' = accounts
                 /\ error' = "load failed"
                 /\ loading' = FALSE
    /\ Len(loads') > Len(loads) => accounts' = accounts

C8_FailedLoadKeepsStore == [][C8_FailedLoadStep]_vars

\* a list fetch has failed while the store held accounts
C8_Witness ==
    /\ error = "load failed"
    /\ Len(accounts) > 0
    /\ ~loading
    /\ loads = <<>>

\* C9: loadAccounts publishes the fetched list, every usage undefined and
\* loading false, when no usage fetch of it has resolved: none is issued before
\* the list is published and all are pending right after.
C9_NoFetchBeforePublish ==
    \A i \in DOMAIN loads : loads[i].pc \in {"list", "fetched"} => loads[i].res = <<>>

C9_PublishStep ==
    \A i \in DOMAIN loads :
        /\ loads[i].pc = "fetched"
        /\ \/ loads' = RemoveAt(loads, i)
           \/ Len(loads') = Len(loads) /\ loads'[i].pc = "usage"
        => /\ Len(accounts') = Len(loads[i].list)
           /\ \A k \in DOMAIN accounts' :
                 /\ accounts'[k].id = loads[i].list[k].id
                 /\ accounts'[k].usage = Undefined
           /\ loading' = FALSE
           /\ Len(loads[i].list) > 0
                 => /\ Len(loads') = Len(loads)
                    /\ loads'[i].pc = "usage"
                    /\ Len(loads'[i].res) = Len(loads[i].list)
                    /\ \A k \in DOMAIN loads'[i].res : loads'[i].res[k] = "pending"

Reports == {lastToast} \cup {loads[i].after.t : i \in DOMAIN loads}

BatchMsgs == {"batch refresh", "batch delete", "delete expired"}

Rejected(t) == {j \in DOMAIN t.about.res : t.about.res[j] = "fail"}

CountsMatch(t) ==
    LET n == Len(t.about.ids)
        k == Cardinality(Rejected(t))
    IN /\ t.counts = <<n - k, k>>
       /\ Cardinality({t.about.ids[j] : j \in Rejected(t)}) = k

Pending(res) == {k \in DOMAIN res : res[k] = "pending"}

\* a batch starts: the operation has been dispatched for every id
C11_DispatchAll ==
    Len(batches') > Len(batches)
        => LET b == batches'[Len(batches')]
           IN /\ Len(b.ids) >= 1
              /\ DOMAIN b.res = DOMAIN b.ids
              /\ Pending(b.res) = DOMAIN b.ids

\* a batch ends only in the step in which its last outstanding operation settles
C11_EndsWithLastSettle ==
    \A b \in DOMAIN batches :
        batches' = RemoveAt(batches, b) => Cardinality(Pending(batches[b].res)) = 1

\* while a batch stays, one of its items settling (fulfilled or rejected)
\* produces no aggregate, starts no reload and leaves the other items pending
C11_ItemSettleOnly ==
    \A b \in DOMAIN batches :
        /\ Len(batches') = Len(batches)
        /\ batches'[b] # batches[b]
        => /\ \E k \in Pending(batches[b].res) :
                 /\ Pending(batches'[b].res) = Pending(batches[b].res) \ {k}
                 /\ Pending(batches'[b].res) # {}
           /\ batches'[b].ids = batches[b].ids
           /\ lastToast' = lastToast
           /\ loads' = loads
           /\ selectedIds' = selectedIds

\* an aggregate toast is set, or a reload that will report one is started,
\* only by the step that ends a batch or by the reload that batch awaited
C11_AggregateAfterAll ==
    /\ (Len(loads') > Len(loads) /\ loads'[Len(loads')].after.k = "toast")
          => \E b \in DOMAIN batches : batches' = RemoveAt(batches, b)
    /\ (lastToast' # lastToast /\ lastToast'.counts # <<>>)
          => \/ \E b \in DOMAIN batches : batches' = RemoveAt(batches, b)
             \/ \E i \in DOMAIN loads :
                   loads' = RemoveAt(loads, i) /\ loads[i].after = AfterToast(lastToast')

\* C11: a batch (refresh, delete, delete expired) dispatches the operation for
\* every id of the batch; its aggregate and its follow-up reload are produced
\* only once every one of these operations has settled, and a failed item
\* neither stops the other items nor ends the batch early.
C11_WaitAll ==
    [][C11_DispatchAll /\ C11_EndsWithLastSettle /\ C11_ItemSettleOnly
       /\ C11_AggregateAfterAll]_vars

\* a batch in which an item was rejected while another was still outstanding,
\* and that other item is settled later
C11_Witness ==
    \E t \in Reports :
        /\ t.msg \in BatchMsgs
        /\ Len(t.about.ids) >= 2
        /\ \E j, k \in DOMAIN t.about.res :
              t.about.res[j] = "fail" /\ t.about.res[k] = "ok"

\* ------------------------------------------------------------------ C12
DeleteKinds == {"batch delete", "delete expired"}

\* the ids whose removeAccount was fulfilled
Deleted(ids, res) == {ids[k] : k \in {j \in DOMAIN res : res[j] = "ok"}}

\* the step in which the last removeAccount of delete batch b settles
C12_BatchDeleteEnds(b) ==
    /\ batches[b].kind \in DeleteKinds
    /\ batches' = RemoveAt(batches, b)

C12_EndStep ==
    \A b \in DOMAIN batches :
        C12_BatchDeleteEnds(b)
        => /\ selectedIds' = {}
           /\ Len(loads') = Len(loads) + 1
           /\ SubSeq(loads', 1, Len(loads)) = loads
           /\ loads'[Len(loads')].pc = "list"
           /\ loading'
           /\ LET t == loads'[Len(loads')].after.t
              IN /\ t.about.ids = batches[b].ids
                 /\ "pending" \notin Range(t.about.res)
                 /\ Deleted(t.about.ids, t.about.res) \cap selectedIds' = {}
                 /\ t.counts = <<Cardinality({j \in DOMAIN t.about.res : t.about.res[j] = "ok"}),
                                 Cardinality(Rejected(t))>>

\* C12: when the removals of a confirmed batch delete have all settled, the
\* selection holds none of the deleted ids (it is empty) and exactly one reload
\* of the store is started, whether all, some or none of the removals failed.
C12_SelectionClearedOneReload == [][C12_EndStep]_vars

\* the reload that follows a batch delete of two ids, one rejected; and the
\* reload that follows a batch delete in which every removal was rejected
C12_WitnessPartial ==
    \E i \in DOMAIN loads :
        /\ loads[i].after.k = "toast"
        /\ loads[i].after.t.msg = "batch delete"
        /\ loads[i].after.t.counts = <<1, 1>>
        /\ selectedIds = {}

C12_Witness ==
    \E i \in DOMAIN loads :
        /\ loads[i].after.k = "toast"
        /\ loads[i].after.t.msg = "batch delete"
        /\ loads[i].after.t.counts = <<0, 2>>
        /\ selectedIds = {}

\* ------------------------------------------------------------------ C13
\* C13: at most one refreshAllTokens call of the effect is outstanding at any
\* time; a tick that fires while an earlier call is unsettled starts no call.
C13_NoOverlappingRenewals == sched.calls <= 1

\* ------------------------------------------------------------------ C14
\* a step in which one refreshAllTokens call settles
RenewalSettles == sched'.calls = sched.calls - 1

C14_RenewStep ==
    RenewalSettles /\ sched'.last.st = "ok"
    => IF sched'.last.ids # {}
       THEN /\ Len(loads') = Len(loads) + 1
            /\ SubSeq(loads', 1, Len(loads)) = loads
            /\ loads'[Len(loads')] = NewLoad(NoAfter)
            /\ loading'
       ELSE loads' = loads /\ loading' = loading

\* C14: a renewal call that returns a non-empty set of renewed ids starts
\* loadAccounts exactly once, whatever the size of the set; a call that
\* returns the empty set starts no load.
C14_OneLoadPerRenewal == [][C14_RenewStep]_vars

\* a call returned two renewed ids after the initial load had finished, and
\* one load is in progress
C14_Witness ==
    /\ sched.last.st = "ok"
    /\ Cardinality(sched.last.ids) = 2
    /\ sched.calls = 0
    /\ sched.issued = 1
    /\ Len(accounts) > 0
    /\ Len(loads) = 1
    /\ loads[1].pc = "list"

\* ------------------------------------------------------------------ C15
C15_FailedRenewStep ==
    RenewalSettles /\ sched'.last.st = "fail"
    => /\ loads' = loads
       /\ accounts' = accounts
       /\ loading' = loading
       /\ error' = error
       /\ sched'.timer = sched.timer

\* the interval is cleared by nothing but the unmount
C15_TimerStep ==
    sched'.timer # sched.timer => sched.mounted /\ ~sched'.mounted

\* every tick issues a renewal call
C15_TickStep ==
    sched'.ticks # sched.ticks
    => /\ sched'.ticks = sched.ticks + 1
       /\ sched'.issued = sched.issued + 1
       /\ sched'.calls = sched.calls + 1

\* while the interval is set the tick can fire, whatever the earlier outcomes
C15_TickStillFires ==
    sched.timer = "set" /\ sched.ticks < MaxTicks => ENABLED Tick

\* C15: a failed renewal call is caught: it starts no load, leaves the store
\* as it is and does not stop the timer, so every later tick before the
\* cancellation still issues a renewal call.
C15_FailureKeepsTimer ==
    /\ [](sched.mounted => sched.timer = "set")
    /\ []C15_TickStillFires
    /\ [][C15_FailedRenewStep /\ C15_TimerStep /\ C15_TickStep]_vars

\* a renewal call was issued by a tick after an earlier call had failed
C15_Witness ==
    /\ sched.last.st = "fail"
    /\ sched.issued > sched.last.n
    /\ sched.calls >= 1
    /\ sched.mounted

\* ------------------------------------------------------------------ C16
C16_IssueStep ==
    sched'.issued # sched.issued
    => /\ sched.mounted
       /\ sched'.issued = sched.issued + 1
       /\ sched'.ticks = sched.ticks + 1

\* C16: between start and cancellation the effect issues one renewal call at
\* startup and one per tick of the interval; once the component is unmounted
\* no renewal call is issued any more.
C16_CallsWhileMounted ==
    /\ [](sched.issued = 1 + sched.ticks)
    /\ [][C16_IssueStep]_vars

\* unmounted after the startup call and one tick
C16_Witness ==
    /\ ~sched.mounted
    /\ sched.timer = "cleared"
    /\ sched.ticks = 1
    /\ sched.issued = 2

\* ------------------------------------------------------------------ C17
\* the expiry exists, parses to a valid instant and is strictly before now
Qualifies(account) ==
    /\ account.token_expired_at \notin {NoExpiry, Unparsable}
    /\ account.token_expired_at < Now

QualifyingIds(accs) ==
    LET RECURSIVE Pick(_)
        Pick(k) == IF k > Len(accs) THEN <<>>
                   ELSE (IF Qualifies(accs[k]) THEN <<accs[k].id>> ELSE <<>>) \o Pick(k + 1)
    IN Pick(1)

\* delete expired is invoked: the dialog is opened over exactly the qualifying
\* accounts of the store; with none, nothing is opened and nothing is called
C17_InvokeStep ==
    HandleDeleteExpiredAccounts
    => IF QualifyingIds(accounts) = <<>>
       THEN /\ confirmModal' = confirmModal
            /\ batches' = batches
            /\ loads' = loads
            /\ backend' = backend
            /\ lastToast' = Toast("info", "no expired accounts")
       ELSE /\ confirmModal'.kind = "delete expired"
            /\ confirmModal'.ids = QualifyingIds(accounts)
            /\ batches' = batches
            /\ backend' = backend

\* the dialog is confirmed: removeAccount is issued for exactly its ids
C17_ConfirmStep ==
    ConfirmBatchDelete /\ confirmModal.kind = "delete expired"
    => /\ Len(batches') = Len(batches) + 1
       /\ batches'[Len(batches')].kind = "delete expired"
       /\ batches'[Len(batches')].ids = confirmModal.ids
       /\ Pending(batches'[Len(batches')].res) = DOMAIN confirmModal.ids

\* removeAccount changes the backend only for an id of a running batch
C17_RemoveStep ==
    backend' # backend
    => \E b \in DOMAIN batches : \E k \in Pending(batches[b].res) :
          backend' = FilterSeq(backend, Ids \ {batches[b].ids[k]})

\* C17: delete expired issues removeAccount for exactly the accounts of the
\* store whose token_expired_at exists, parses to a valid instant and is
\* strictly earlier than the current time (the store and the time being those
\* of the moment delete expired is invoked); an account whose expiry is
\* missing, unparsable, equal to now or later is never among them, and with no
\* qualifying account no backend call is made.
C17_RemovesExactlyExpired ==
    /\ [](confirmModal.kind = "delete expired" => confirmModal.ids # <<>>)
    /\ [][C17_InvokeStep /\ C17_ConfirmStep /\ C17_RemoveStep]_vars

\* removeAccount is outstanding for the one expired account while the other
\* account of the store has an expiry that does not parse
C17_Witness ==
    \E b \in DOMAIN batches :
        /\ batches[b].kind = "delete expired"
        /\ Len(batches[b].ids) = 1
        /\ Pending(batches[b].res) = {1}
        /\ \E k \in DOMAIN accounts :
              /\ accounts[k].id # batches[b].ids[1]
              /\ accounts[k].token_expired_at = Unparsable

\* ------------------------------------------------------- C18, C19, C20
\* exactly three non-empty Base64-URL segments, the first starting with eyJ
WellFormed(v) ==
    /\ v # <<>>
    /\ Head(v) = "eyJ"
    /\ LET parts == SplitDot(v)
       IN Len(parts) = 3 /\ \A i \in DOMAIN parts : IsBase64Url(parts[i])

Submitted == addModal.token # NoToken

\* C18: extract accepts no malformed candidate, whichever strategy meets it:
\* every value it returns has exactly three non-empty Base64-URL segments and
\* starts with eyJ.
C18_ReturnsOnlyWellFormed ==
    addModal.token.st = "token" => WellFormed(addModal.token.v)

\* the string values an input holds under Result.Token, token and Token
JsonFieldValues(input) ==
    LET p == JsonParse(StripControl(Trim(input)))
        result == GetProp(p.val, "Result")
        vals == <<GetProp(result, "Token"), GetProp(p.val, "token"), GetProp(p.val, "Token")>>
    IN IF ~p.ok THEN {} ELSE {vals[k].v : k \in {j \in 1..3 : vals[j].t = "str"}}

\* what each strategy finds in an input, before validation
StrategyCandidates(input) ==
    LET trimmed == StripControl(Trim(input))
    IN {trimmed} \cup {Trim(v) : v \in JsonFieldValues(input)}
           \cup {MatchLabeled(trimmed), MatchJwt(trimmed)}

\* C19: extract reports failure only if none of the four strategies yields a
\* valid token; a candidate that an earlier strategy found and rejected does
\* not stop a later strategy from succeeding.
C19_FailsOnlyIfNoStrategyYields ==
    addModal.token.st = "null"
        => \A c \in StrategyCandidates(addModal.tokenInput) : ~WellFormed(c)

\* C20: for a JSON input that holds a valid token string under a recognized
\* field (Result.Token, token, Token), extract returns what it returns for
\* that token given as bare input.
C20_JsonSameAsBare ==
    LET held == {v \in JsonFieldValues(addModal.tokenInput) : WellFormed(v)}
    IN Submitted /\ held # {}
          => addModal.token \in {ExtractToken(v) : v \in held}


\* ------------------------------------------------------------------- C21
\* input is t with whitespace before and after it and \r, \n or \t characters
\* inside it
IsPaddedToken(input, t) ==
    \E i \in 0..Len(input), j \in 0..Len(input) :
        /\ i < j
        /\ \A k \in 1..i : input[k] \in WsSyms
        /\ \A k \in (j + 1)..Len(input) : input[k] \in WsSyms
        /\ input[i + 1] \notin WsSyms
        /\ input[j] \notin WsSyms
        /\ SelectSeq(SubSeq(input, i + 1, j), LAMBDA c : c # "\n") = t

\* a submission of the manual form: the input is kept and the form leaves idle
\* or shows a result
SubmitStep ==
    /\ addModal.pc = "idle"
    /\ addModal'.tokenInput = addModal.tokenInput
    /\ addModal' # addModal

\* C21: for every input that is a valid three-segment eyJ token with
\* whitespace around it and/or \t, \r, \n characters inside it, extract returns
\* the token with those characters removed and otherwise unchanged.
C21_StripsWhitespace ==
    [][\A t \in {TokA, TokB} :
          SubmitStep /\ IsPaddedToken(addModal.tokenInput, t)
              => addModal'.token = TokenOf(t)]_vars

\* a token with a control character inside it and whitespace on both sides
\* was submitted and came back clean
C21_Witness ==
    /\ addModal.open
    /\ addModal.tokenInput = <<"\n", " ">> \o InsertAt(TokA, 3, "\n") \o <<" ">>
    /\ addModal.token = TokenOf(TokA)
    /\ addModal.pc = "adding"


\* ------------------------------------------------------------------- C22
\* what cases 3 and 4 make of the cleaned text
LaterStrategies(trimmed) ==
    IF MatchLabeled(trimmed) # <<>> THEN ValidateAndCleanToken(MatchLabeled(trimmed))
    ELSE IF MatchJwt(trimmed) # <<>> THEN ValidateAndCleanToken(MatchJwt(trimmed))
    ELSE NullToken

\* the cleaned text is not a bare token and either is not JSON or is JSON for
\* something other than an object (null, a number, a string, an array)
NotAnObject(input) ==
    LET trimmed == StripControl(Trim(input))
        p == JsonParse(trimmed)
    IN /\ ~WellFormed(trimmed)
       /\ (~p.ok \/ p.val.t # "obj")

\* a submission that gets as far as calling extract
ExtractStep == SubmitStep /\ Trim(addModal.tokenInput) # <<>>

\* C22: extract is total: for every input, text that is not JSON and JSON for
\* null, a number, a string or an array included, it returns a token or
\* failure and never throws; a JSON parse error or a field-access error moves
\* on to the next strategy.
C22_TotalAndMovesOn ==
    /\ [](addModal.token.st \in {"none", "token", "null"})
    /\ [][ExtractStep /\ NotAnObject(addModal.tokenInput)
            => addModal'.token = LaterStrategies(StripControl(Trim(addModal.tokenInput)))]_vars

\* JSON null was submitted (reading a field of it is an error) and extract
\* reported failure; the form is usable again
C22_Witness ==
    /\ addModal.tokenInput = <<"null">>
    /\ addModal.token = NullToken
    /\ addModal.error = "token not recognized"
    /\ addModal.pc = "idle"


\* ------------------------------------------------------------------- C23
\* C23: when the usage fetch of a single refresh(id) fails, the failure
\* reaches refresh's caller as an error outcome: the claim-gift flow, which
\* awaits the refresh, does not take its success path.
C23_FailedRefreshReachesCaller ==
    [][\A r \in DOMAIN refreshes :
          refreshes[r].from = "gift" /\ RefreshSettleFail(r)
              => lastToast' # Toast("success", "gift claimed")]_vars


\* ------------------------------------------------------------------- C24
\* C24: in every reachable state at most one account in AccountStore has the
\* current flag set; after a successful switch to id (when its success toast
\* is shown) the account with that id is the one marked current.
C24_OneCurrent ==
    /\ [](\A i, j \in DOMAIN accounts :
            accounts[i].is_current /\ accounts[j].is_current => i = j)
    /\ [][lastToast' # lastToast /\ lastToast'.msg = "account switched"
            => \E k \in DOMAIN accounts' :
                  /\ accounts'[k].is_current
                  /\ accounts'[k].id = lastToast'.about.ids[1]]_vars


\* ------------------------------------------------------------------- C25
\* C25: in every reachable state no two entries of AccountStore share an id,
\* also while loads, adds, imports and deletes overlap.
C25_UniqueIds ==
    \A i, j \in DOMAIN accounts : accounts[i].id = accounts[j].id => i = j

\* the backend listed one account; an add put a second one there, and the
\* load that followed published both while the first load was still under way
C25_Witness ==
    /\ Len(backend) = 2
    /\ Len(accounts) = 2
    /\ lastToast = Toast("success", "account added")
    /\ Len(loads) = 2
    /\ loads[1].pc = "usage" /\ Len(loads[1].list) = 1
    /\ loads[2].pc = "usage" /\ Len(loads[2].list) = 2


\* ------------------------------------------------------------------- C26
\* nothing is in flight: no load, no backend call of any handler, no renewal
Quiescent ==
    /\ ~crashed
    /\ loads = <<>> /\ refreshes = <<>> /\ gifts = <<>> /\ batches = <<>>
    /\ deletes = <<>> /\ updates = <<>> /\ imports = <<>> /\ switches = <<>>
    /\ adds = <<>>
    /\ sched.calls = 0

\* C26: once every operation in flight has settled, the ids in AccountStore
\* are the backend's ids, also when several load() calls overlapped and their
\* account-list responses completed in another order than they were issued in
\* (stated for runs in which no account-list fetch failed).
C26_QuiescentStoreMatchesBackend ==
    Quiescent /\ error = "null" => AccountIds = Range(backend)


\* ------------------------------------------------------------------- C27
\* C27: when a load() runs with nothing interleaved, after it completes each
\* account's usage is the snapshot of its own usage fetch if that succeeded
\* and null if it failed; one account's failed fetch changes nothing about the
\* usage of any other account and does not fail the load.
C27_UsagePerAccount ==
    [][\A i \in DOMAIN loads, o \in Outcomes :
        \A k \in DOMAIN loads[i].res :
          (/\ Len(loads) = 1
           /\ LoadUsageSettle(i, k, o)
           /\ \A j \in DOMAIN loads[i].res : j # k => loads[i].res[j] # "pending")
          => LET list == loads[i].list
                 res == [loads[i].res EXCEPT ![k] = o]
             IN /\ loads' = <<>>
                /\ ~crashed'
                /\ error' = error
                /\ ~loading'
                /\ Len(accounts') = Len(list)
                /\ \A j \in DOMAIN list :
                      /\ accounts'[j].id = list[j].id
                      /\ accounts'[j].usage =
                            IF res[j] = "ok" THEN Snapshot(list[j].id) ELSE Null]_vars

\* a load of two accounts has completed with one fetch failed and the other
\* succeeded
C27_Witness ==
    /\ loads = <<>>
    /\ ~crashed
    /\ error = "null"
    /\ Len(accounts) = 2
    /\ accounts[1].usage = Null
    /\ accounts[2].usage = Snapshot(accounts[2].id)


\* ------------------------------------------------------------------- C28
\* C28: during load(), each account's usage result is merged into AccountStore
\* when that account's own fetch settles: an account whose fetch has completed
\* shows its usage while another account's fetch is still outstanding.
C28_MergedAsSettled ==
    \A i \in DOMAIN loads :
        Len(loads) = 1 /\ loads[i].pc = "usage" /\ ~crashed
            => \A k \in DOMAIN loads[i].res :
                  loads[i].res[k] = "ok"
                      => accounts[k].usage = Snapshot(loads[i].list[k].id)


\* ------------------------------------------------------------------- C29
\* the step changes the usage of the account with this id to its snapshot and
\* nothing else of the list or the selection
OnlyUsageOf(id) ==
    /\ Len(accounts') = Len(accounts)
    /\ \A k \in DOMAIN accounts :
          /\ accounts'[k].id = accounts[k].id
          /\ accounts'[k].is_current = accounts[k].is_current
          /\ accounts'[k].token_expired_at = accounts[k].token_expired_at
          /\ accounts'[k].usage =
                IF accounts[k].id = id THEN Snapshot(id) ELSE accounts[k].usage
    /\ selectedIds' = selectedIds

\* the step leaves the list and the selection as they are
StoreUntouched == accounts' = accounts /\ selectedIds' = selectedIds

\* C29: a single refresh, a batch-refresh item and a token update for id each
\* change nothing in AccountStore but the usage of the account with that id,
\* which becomes the returned snapshot; membership, order, every other
\* account, SelectionSet and the current flag are unchanged, and when the
\* backend call fails the account's cached usage stays as it was.
C29_UsageFrame ==
    [][/\ \A r \in DOMAIN refreshes :
             /\ RefreshSettleOk(r) => OnlyUsageOf(refreshes[r].id)
             /\ RefreshSettleFail(r) => StoreUntouched
       /\ \A b \in DOMAIN batches : \A k \in DOMAIN batches[b].res :
             /\ BatchRefreshSettle(b, k, "ok") => OnlyUsageOf(batches[b].ids[k])
             /\ BatchRefreshSettle(b, k, "fail") => StoreUntouched
       /\ \A u \in DOMAIN updates :
             /\ UpdateSettleOk(u) => OnlyUsageOf(updates[u])
             /\ UpdateSettleFail(u) => StoreUntouched]_vars

\* the refresh of the selected, current account failed after its usage had
\* been loaded: the usage is still shown
C29_Witness ==
    /\ lastToast = Toast("error", "refresh failed")
    /\ refreshes = <<>>
    /\ \E k \in DOMAIN accounts :
          /\ accounts[k].is_current
          /\ accounts[k].id \in selectedIds
          /\ accounts[k].usage = Snapshot(accounts[k].id)


\* ------------------------------------------------------------------- C30
\* C30: when the manual add form is submitted and extract reports failure, no
\* addAccountByToken call is made, the "could not recognize token" error is
\* shown, the loading flag is cleared and the modal stays open with the
\* user's input kept; the backend is only ever called with a token that
\* extract returned for the submitted input.  addModal.token is what extract
\* returned in the submission.
C30_FailureStaysInForm ==
    /\ [][addModal'.token = NullToken /\ HandleManualSubmit
           => /\ adds' = adds
              /\ addModal'.error = "token not recognized"
              /\ ~addModal'.loading
              /\ addModal'.open
              /\ addModal'.tokenInput = addModal.tokenInput
              /\ addModal'.pc = "idle"]_vars
    /\ [](\A a \in DOMAIN adds :
            TokenOf(adds[a].token) = ExtractToken(addModal.tokenInput))

\* a two-segment candidate was submitted: the form shows the error and holds
\* the input, and nothing was sent
C30_Witness ==
    /\ addModal.open
    /\ addModal.tokenInput = <<"eyJ", "a", ".", "a">>
    /\ addModal.token = NullToken
    /\ addModal.error = "token not recognized"
    /\ ~addModal.loading
    /\ adds = <<>>

\* ------------------------------------------------------------------ C31
\* C31: an add by token whose backend call succeeds starts exactly one reload,
\* and the modal is closed when that reload returns; an add the backend
\* rejects starts no reload, leaves the account store as it was, clears the
\* form's loading flag, and its error is shown in the modal, which is open.
C31_AcceptedStep ==
    \A a \in DOMAIN adds :
        AddSettleOk(a) => loads' = Append(loads, NewLoad(AfterAdded))

ReloadsOfAdd(ls) == Cardinality({i \in DOMAIN ls : ls[i].after.k = "added"})

C31_ClosesAfterReload ==
    ReloadsOfAdd(loads') < ReloadsOfAdd(loads)
        => ~addModal'.open /\ ~addModal'.loading

C31_RejectedStep ==
    \A a \in DOMAIN adds :
        AddSettleFail(a) =>
            /\ loads' = loads
            /\ accounts' = accounts
            /\ ~addModal'.loading
            /\ addModal'.error = "add failed"
            /\ addModal'.open

C31_AddReloadsOrReports ==
    [][C31_AcceptedStep /\ C31_ClosesAfterReload /\ C31_RejectedStep]_vars

\* ------------------------------------------------------------------ C32
\* C32: a confirmed single delete whose removeAccount call fails leaves the
\* selection and the account store as they were and starts no reload; one that
\* succeeds takes exactly its id out of the selection and starts exactly one
\* reload; the confirmation dialog is closed when the failed call returns or
\* when the reload of the successful one returns.
C32_FailedStep ==
    \A d \in DOMAIN deletes :
        DeleteSettleFail(d) =>
            /\ selectedIds' = selectedIds
            /\ accounts' = accounts
            /\ loads' = loads
            /\ confirmModal' = NoModal

C32_DeletedStep ==
    \A d \in DOMAIN deletes :
        DeleteSettleOk(d) =>
            /\ \A id \in Ids : id \in selectedIds' <=> (id \in selectedIds /\ id # deletes[d])
            /\ Len(loads') = Len(loads) + 1
            /\ SubSeq(loads', 1, Len(loads)) = loads

ReloadsOfDelete(ls) == Cardinality({i \in DOMAIN ls : ls[i].after.k = "closeConfirm"})

C32_ClosedAfterReload ==
    ReloadsOfDelete(loads') < ReloadsOfDelete(loads)
        => confirmModal' = NoModal

C32_SingleDelete ==
    [][C32_FailedStep /\ C32_DeletedStep /\ C32_ClosedAfterReload]_vars

\* account 1 deleted while account 2 was selected too: the reload has returned,
\* the dialog is closed and 2 is still selected
C32_Witness ==
    /\ lastToast = Toast("success", "deleted")
    /\ Range(backend) = {2}
    /\ AccountIds = {2}
    /\ selectedIds = {2}
    /\ confirmModal = NoModal
    /\ loads = <<>>
    /\ deletes = <<>>

\* ------------------------------------------------------------------ C33
\* C33: when claimGift(id) has succeeded a usage fetch for id is issued after
\* it, by the handleRefreshAccount(id) the confirmation awaits; when claimGift
\* fails no usage fetch is issued for it and the success message is not shown.
C33_ClaimedStep ==
    \A g \in DOMAIN gifts :
        GiftClaimOk(g) =>
            refreshes' = Append(refreshes, [id |-> gifts[g].id, from |-> "gift"])

C33_FailedClaimStep ==
    \A g \in DOMAIN gifts :
        GiftClaimFail(g) =>
            /\ refreshes' = refreshes
            /\ lastToast' # Toast("success", "gift claimed")

C33_UsageFetchedAfterClaim == [][C33_ClaimedStep /\ C33_FailedClaimStep]_vars

\* ------------------------------------------------------------------ C34
\* C34: a login-success event starts exactly one reload, clears the
\* pending-login flag and closes the modal; a login-failed event shows the
\* error and clears the flag without a reload and without closing; a
\* login-cancelled event only clears the flag; once the modal component is
\* torn down the three subscriptions are released and no handler runs.
C34_SuccessStep ==
    LoginSuccess =>
        /\ loads' = Append(loads, NewLoad(NoAfter))
        /\ ~addModal'.started
        /\ ~addModal'.open

C34_FailedStep ==
    LoginFailed =>
        /\ addModal'.error = "login failed"
        /\ ~addModal'.started
        /\ loads' = loads
        /\ addModal'.open = addModal.open

C34_CancelledStep ==
    LoginCancelled =>
        /\ addModal' = [addModal EXCEPT !.started = FALSE]
        /\ loads' = loads

C34_HandlerStep == LoginSuccess \/ LoginFailed \/ LoginCancelled

C34_ReleasedAtTeardown ==
    ~login.mounted => \A e \in LoginEvents : login.sub[e] = "released"

C34_LoginOutcomes ==
    /\ [][C34_SuccessStep /\ C34_FailedStep /\ C34_CancelledStep]_vars
    /\ [][C34_HandlerStep => login.mounted]_vars
    /\ []C34_ReleasedAtTeardown

\* ------------------------------------------------------------------ C35
\* C35: when the removals of delete expired are issued, every account they
\* name is still expired: an account whose token was renewed, and whose
\* renewed expiry the reloaded store shows, is not removed.
StoreShowsExpired(id) ==
    \A i \in DOMAIN accounts : accounts[i].id = id => IsExpired(accounts[i])

C35_IssueStep ==
    ConfirmBatchDelete /\ confirmModal.kind = "delete expired"

C35_RemovesOnlyStillExpired ==
    [][C35_IssueStep =>
          \A k \in DOMAIN confirmModal.ids : StoreShowsExpired(confirmModal.ids[k])]_vars

\* ------------------------------------------------------------------ C36
\* C36: select-all invoked when the selection is not the set of all account
\* ids of the store makes the selection exactly that set, and invoked when it
\* is that set empties it; toggling one account leaves every other id as it
\* was and flips that one, so toggling twice restores the selection.
C36_SelectAllStep ==
    HandleSelectAll =>
        selectedIds' = IF selectedIds = AccountIds THEN {} ELSE AccountIds

C36_ToggleStep ==
    \A id \in Ids :
        HandleSelectAccount(id) =>
            /\ id \in selectedIds' <=> id \notin selectedIds
            /\ selectedIds' \ {id} = selectedIds \ {id}

C36_SelectAllAndToggle == [][C36_SelectAllStep /\ C36_ToggleStep]_vars

\* ------------------------------------------------------------------ C37
\* C37: no two toasts of the list have the same id, so removeToast(id) takes
\* exactly one toast out and leaves the others, also when two toasts were
\* added at the same clock reading.
C37_DistinctIds ==
    \A i, j \in DOMAIN toasts : i # j => toasts[i].id # toasts[j].id

C37_RemoveStep ==
    \A id \in {toasts[i].id : i \in DOMAIN toasts} :
        RemoveToast(id) => Len(toasts') = Len(toasts) - 1

C37_UniqueToastIds == []C37_DistinctIds /\ [][C37_RemoveStep]_vars
====
